---- MODULE Spec2Model ----
(***************************************************************************)
(* A model of texxd's byte store (HexFile: a write-buffer overlay over a   *)
(* backing file) and of its navigation cursor (Cursor).                    *)
(***************************************************************************)
EXTENDS Integers, Sequences, FiniteSets, TLC

(* ------------------------------ bounds -------------------------------- *)

\* Largest store extent explored: positions and sizes stay within 0..MaxSize.
MaxSize == 2

\* Largest number of writes issued between two save/revert calls.
MaxWrites == 2

\* Largest cursor file size explored.
MaxCursorSize == 5

\* Largest bytes_per_line a Cursor is constructed with.
MaxBytesPerLine == 3

\* Largest magnitude of an integer argument handed to a cursor operation.
MaxArg == 4

\* The _set_position calls one operation on a synchronised pair may run.
MaxDepth == 4

\* Largest bytes_per_line a HexColumn or AsciiColumn is constructed with.
MaxColumnBytes == 16

\* Most highlighters added to one column.
MaxHighlighters == 2

\* Largest size of the file a HexView shows.
MaxViewSize == 33

\* HexView.size.height: the rows of the widget.
ViewHeight == 2

(* ------------------------------ inputs -------------------------------- *)

\* Byte values the explored files and writes are made of.
InputBytes == {0, 1}

\* Byte values the rendered chunks are made of: both line ends, the edges
\* of the printable range, and a byte with letters for hex digits.
SampleBytes == <<0, 10, 32, 126, 127, 255>>

\* A chunk of n bytes, read from SampleBytes starting r places in.
ChunkOf(n, r) == [i \in 1..n |-> SampleBytes[((i - 1 + r) % Len(SampleBytes)) + 1]]

\* The chunks handed to a column of bpl bytes per line: all lengths up to a full line.
Chunks(bpl) == {ChunkOf(n, r) : n \in 0..bpl, r \in 0..(Len(SampleBytes) - 1)}

\* File sizes an AddressColumn is given: around each change of digit count.
AddressSizes == {0, 1, 255, 4096, 65535, 65536, 1048576}

\* Offsets of the lines an AddressColumn renders.
AddressOffsets == {0, 16, 4080, 65520, 1048560}


None == "None"

Min(a, b) == IF a <= b THEN a ELSE b

Max(a, b) == IF a >= b THEN a ELSE b

SeqsUpTo(S, n) == UNION {[1..k -> S] : k \in 0..n}

Zeros(n) == [i \in 1..n |-> 0]

\* The byte strings handed to write().
WriteData == {<<0>>, <<1>>, <<1, 0>>}

\* The <<offset, whence>> pairs handed to seek().
SeekArgs == (((0 - 1)..MaxSize) \X {0}) \cup ({0 - 1, 1} \X {1}) \cup ({0 - 1, 0} \X {2})

\* The sizes handed to read() and the buffer lengths handed to readinto().
ReadSizes == {0 - 2, 0 - 1, 0, 1, 2}

(* ------------------------------ state --------------------------------- *)

VARIABLES
    file,            \* HexFile._file: the backing file's content, a byte sequence
    write_buffer,    \* HexFile._write_buffer: insertion-ordered dict, <<offset, data>> items
    hf_position,     \* HexFile._position
    hf_file_size,    \* HexFile._file_size
    closed,          \* HexFile._file.closed: the backing file has been closed
    raised,          \* the last call on the store raised an exception
    issued,          \* history: the writes issued since open/save/revert, oldest first
    last,            \* history: the last call that changed the store, <<name, pending writes it met>>
    position,        \* Cursor.position
    file_size,       \* Cursor.file_size
    bytes_per_line,  \* Cursor.bytes_per_line
    view_height,     \* Cursor.view_height
    height_given,    \* history: the view height given at construction or to the latest set_view_height
    is_active,       \* Cursor.is_active
    on_position_changed, \* Cursor.on_position_changed is set (a callable)
    on_scroll_request,   \* Cursor.on_scroll_request is set (a callable)
    calls,           \* the callback invocations made by the last cursor operation, in order
    position2,       \* Cursor.position of the second cursor of a synchronised pair
    calls2,          \* the callback invocations the second cursor made in the last operation
    pending,         \* the _set_position call about to run, <<cursor, new_position>>, or None
    depth,           \* the number of _set_position calls the last operation has run
    col_class,       \* the class of the column object: "hex", "ascii" or "address"
    col_bytes_per_line, \* HexColumn/AsciiColumn.bytes_per_line (0: an AddressColumn has none)
    col_file_size,   \* AddressColumn.file_size (0: the other columns have none)
    highlighters,    \* DataColumn.highlighters, in the order they were added
    out,             \* the last call on the column: its arguments and what it returned
    has_focus,       \* DataColumn.has_focus
    has_cursor,      \* DataColumn.cursor is set: the column was constructed with the cursor
    hv_file,         \* HexView._file is set: the view holds the store
    hv_file_size,    \* HexView._file_size
    cursor_offset,   \* HexView.cursor_offset
    cursor_mode,     \* HexView.cursor_mode: "hex", "ascii" or "inactive"
    scroll_y,        \* HexView.scroll_y: the line at the top of the view
    virtual_height,  \* HexView.virtual_size.height: the lines the view scrolls over
    hv_call          \* the last call on the view: the state it met and what it returned

hfvars == <<file, write_buffer, hf_position, hf_file_size, closed, raised, issued, last>>

cvars == <<position, file_size, bytes_per_line, view_height, height_given, is_active,
           on_position_changed, on_scroll_request, calls>>

svars == <<position2, calls2, pending, depth>>

rvars == <<col_class, col_bytes_per_line, col_file_size, highlighters, out, has_focus, has_cursor>>

vvars == <<hv_file, hv_file_size, cursor_offset, cursor_mode, scroll_y, virtual_height, hv_call>>

vars == <<hfvars, cvars, svars, rvars, vvars>>

(* ------------------------- HexFile: helpers --------------------------- *)

\* HexFile._get_file_size: the backing file's actual length.
_get_file_size(f) == Len(f)

\* dict.__setitem__: an existing key keeps its place in the order, a new key goes last.
DictSet(buf, key, data) ==
    IF \E i \in 1..Len(buf) : buf[i][1] = key
    THEN [i \in 1..Len(buf) |-> IF buf[i][1] = key THEN <<key, data>> ELSE buf[i]]
    ELSE Append(buf, <<key, data>>)

\* Faulty variant of ApplyItem: the overlay bytes land one position too far.
ApplyItemShifted(result, read_start, item) ==
    LET buf_offset == item[1] + 1
        buf_data == item[2]
    IN  [i \in 1..Len(result) |->
            IF buf_offset < i /\ i <= buf_offset + Len(buf_data)
            THEN buf_data[i - buf_offset]
            ELSE result[i]]

\* One iteration of read's overlay loop: item <<buf_offset, buf_data>> laid over
\* result, which holds the bytes of [read_start, read_start + Len(result)).
ApplyItem(result, read_start, item) ==
    LET buf_offset == item[1]
        buf_data == item[2]
        read_end == read_start + Len(result)
        buf_end == buf_offset + Len(buf_data)
        overlap_start == Max(read_start, buf_offset)
        overlap_end == Min(read_end, buf_end)
        result_start == overlap_start - read_start
        result_end == overlap_end - read_start
        buf_start == overlap_start - buf_offset
    IN  IF buf_end <= read_start \/ buf_offset >= read_end
        THEN result
        ELSE [i \in 1..Len(result) |->
                 IF result_start < i /\ i <= result_end
                 THEN buf_data[buf_start + (i - result_start)]
                 ELSE result[i]]

\* Faulty variant of ApplyOverlay: the items applied newest first, so the oldest wins.
RECURSIVE ApplyOverlayNewestFirst(_, _, _)
ApplyOverlayNewestFirst(result, read_start, buf) ==
    IF buf = <<>> THEN result
    ELSE ApplyItem(ApplyOverlayNewestFirst(result, read_start, Tail(buf)),
                   read_start, Head(buf))

\* read's overlay loop: the items applied in the dict's iteration order.
RECURSIVE ApplyOverlay(_, _, _)
ApplyOverlay(result, read_start, buf) ==
    IF buf = <<>> THEN result
    ELSE ApplyOverlay(ApplyItem(result, read_start, Head(buf)), read_start, Tail(buf))

\* Faulty variant of read: the request is not cut down to the logical size.
read_past_size(f, buf, fsize, pos, size) ==
    LET size1 == IF size = -1 THEN fsize - pos ELSE size
        original_data == SubSeq(f, pos + 1, Min(Len(f), pos + size1))
        result == original_data \o Zeros(size1 - Len(original_data))
    IN  IF size1 <= 0 THEN <<>>
        ELSE ApplyOverlay(result, pos, buf)

\* HexFile.read: the bytes returned by read(size) at position pos.
read(f, buf, fsize, pos, size) ==
    LET size1 == IF size = -1 THEN fsize - pos ELSE size
        max_read_size == fsize - pos
        actual_read_size == Min(size1, max_read_size)
        original_file_size == _get_file_size(f)
        bytes_to_read_from_file == Min(actual_read_size, Max(0, original_file_size - pos))
        original_data == SubSeq(f, pos + 1, pos + bytes_to_read_from_file)
        result == original_data \o Zeros(actual_read_size - Len(original_data))
    IN  IF size1 <= 0 THEN <<>>
        ELSE IF actual_read_size <= 0 THEN <<>>
        ELSE ApplyOverlay(result, pos, buf)

\* The backing file after file.seek(offset); file.write(data): a gap is zero-filled.
FileWrite(f, offset, data) ==
    LET padded == IF Len(f) < offset THEN f \o Zeros(offset - Len(f)) ELSE f
    IN  SubSeq(padded, 1, offset) \o data
            \o SubSeq(padded, offset + Len(data) + 1, Len(padded))

\* sorted(items): ascending by offset (the keys are distinct).
RECURSIVE SortedItems(_)
SortedItems(buf) ==
    IF buf = <<>> THEN <<>>
    ELSE LET m == CHOOSE i \in 1..Len(buf) : \A j \in 1..Len(buf) : buf[i][1] <= buf[j][1]
             rest == [i \in 1..(Len(buf) - 1) |-> IF i < m THEN buf[i] ELSE buf[i + 1]]
         IN  <<buf[m]>> \o SortedItems(rest)

\* save's loop: every item written to the backing file, in the order given.
RECURSIVE WriteItems(_, _)
WriteItems(f, items) ==
    IF items = <<>> THEN f
    ELSE WriteItems(FileWrite(f, Head(items)[1], Head(items)[2]), Tail(items))

\* The backing file save() leaves behind.
SavedFile(f, buf) == WriteItems(f, SortedItems(buf))

\* HexFile.has_unsaved_changes
has_unsaved_changes(buf) == Len(buf) > 0

\* Faulty variant of get_unsaved_ranges: the ranges come in insertion order.
get_unsaved_ranges_unsorted(buf) ==
    [i \in 1..Len(buf) |-> <<buf[i][1], buf[i][1] + Len(buf[i][2])>>]

\* HexFile.get_unsaved_ranges
get_unsaved_ranges(buf) ==
    LET s == SortedItems(buf)
    IN  [i \in 1..Len(s) |-> <<s[i][1], s[i][1] + Len(s[i][2])>>]

\* A read of the whole store: seek(0); read(-1).
ReadAll == read(file, write_buffer, hf_file_size, 0, -1)

(* ------------------------- HexFile: operations ------------------------ *)

HexFileInit ==
    /\ file \in SeqsUpTo(InputBytes, MaxSize)
    /\ write_buffer = <<>>
    /\ hf_position = 0
    /\ hf_file_size = _get_file_size(file)
    /\ closed = FALSE
    /\ raised = FALSE
    /\ issued = <<>>
    /\ last = <<"open", 0>>

\* Faulty variant of SeekTarget: the position is clamped to the logical size.
SeekTargetClamped(pos, fsize, offset, whence) ==
    LET p == IF whence = 0 THEN offset
             ELSE IF whence = 1 THEN pos + offset
             ELSE IF whence = 2 THEN fsize + offset
             ELSE pos
    IN  Min(fsize, Max(0, p))

\* The position seek(offset, whence) computes.
SeekTarget(pos, fsize, offset, whence) ==
    LET p == IF whence = 0 THEN offset
             ELSE IF whence = 1 THEN pos + offset
             ELSE IF whence = 2 THEN fsize + offset
             ELSE pos
    IN  Max(0, p)

\* tell() returns the position.
tell(pos) == pos

Seek(offset, whence) ==
    /\ SeekTarget(hf_position, hf_file_size, offset, whence) <= MaxSize
    /\ hf_position' = SeekTarget(hf_position, hf_file_size, offset, whence)
    /\ raised' = FALSE
    /\ UNCHANGED <<file, write_buffer, hf_file_size, closed, issued, last, cvars, svars, rvars, vvars>>

\* tell() returns tell(hf_position) and changes nothing.
Tell ==
    /\ raised' = FALSE
    /\ UNCHANGED <<file, write_buffer, hf_position, hf_file_size, closed, issued, last,
                   cvars, svars, rvars, vvars>>

\* read(size) raises when it gets as far as the seek on a closed backing file,
\* that is when it has bytes to return.
read_raises(cl, f, buf, fsize, pos, size) ==
    cl /\ Len(read(f, buf, fsize, pos, size)) > 0

\* read(size) returns read(file, write_buffer, hf_file_size, hf_position, size)
\* and advances the position by its length.
Read(size) ==
    LET data == read(file, write_buffer, hf_file_size, hf_position, size)
    IN  /\ raised' = read_raises(closed, file, write_buffer, hf_file_size, hf_position, size)
        /\ hf_position' = IF raised' THEN hf_position ELSE hf_position + Len(data)
        /\ UNCHANGED <<file, write_buffer, hf_file_size, closed, issued, last, cvars, svars, rvars, vvars>>

\* readinto(b) with b a zeroed bytearray of n bytes: b receives the data read,
\* the count is returned and the position advances by it.
ReadInto(n) ==
    LET data == read(file, write_buffer, hf_file_size, hf_position, n)
        b == [i \in 1..n |-> IF i <= Len(data) THEN data[i] ELSE 0]
    IN  /\ raised' = read_raises(closed, file, write_buffer, hf_file_size, hf_position, n)
        /\ hf_position' = IF raised' THEN hf_position ELSE hf_position + Len(data)
        /\ UNCHANGED <<file, write_buffer, hf_file_size, closed, issued, last, cvars, svars, rvars, vvars>>

\* Faulty variant of write: the logical size follows the position even backwards.
write_size_is_position(buf, pos, fsize, data) ==
    IF data = <<>>
    THEN [ret |-> 0, buffer |-> buf, position |-> pos, size |-> fsize]
    ELSE [ret |-> Len(data),
          buffer |-> DictSet(buf, pos, data),
          position |-> pos + Len(data),
          size |-> pos + Len(data)]

\* Faulty variant of write: empty data is buffered like any other.
write_buffers_empty(buf, pos, fsize, data) ==
    [ret |-> Len(data),
     buffer |-> DictSet(buf, pos, data),
     position |-> pos + Len(data),
     size |-> IF pos + Len(data) > fsize THEN pos + Len(data) ELSE fsize]

\* write(data): the value returned and the overlay, position and logical size
\* it leaves.
write(buf, pos, fsize, data) ==
    IF data = <<>>
    THEN [ret |-> 0, buffer |-> buf, position |-> pos, size |-> fsize]
    ELSE [ret |-> Len(data),
          buffer |-> DictSet(buf, pos, data),
          position |-> pos + Len(data),
          size |-> IF pos + Len(data) > fsize THEN pos + Len(data) ELSE fsize]

\* Faulty variant of Write: the data goes straight to the backing file as well.
WriteThrough(data) ==
    /\ data # <<>>
    /\ hf_position + Len(data) <= MaxSize
    /\ Len(issued) < MaxWrites
    /\ write_buffer' = DictSet(write_buffer, hf_position, data)
    /\ file' = [i \in 1..Len(file) |->
                   IF hf_position < i /\ i <= hf_position + Len(data)
                   THEN data[i - hf_position] ELSE file[i]]
    /\ hf_position' = hf_position + Len(data)
    /\ hf_file_size' = IF hf_position' > hf_file_size THEN hf_position' ELSE hf_file_size
    /\ raised' = FALSE
    /\ issued' = Append(issued, <<hf_position, data>>)
    /\ last' = <<"write", Len(issued)>>
    /\ UNCHANGED <<closed, cvars, svars, rvars, vvars>>

\* write(data) with data not empty. It never touches the backing file.
Write(data) ==
    /\ data # <<>>
    /\ hf_position + Len(data) <= MaxSize
    /\ Len(issued) < MaxWrites
    /\ LET w == write(write_buffer, hf_position, hf_file_size, data)
       IN  /\ write_buffer' = w.buffer
           /\ hf_position' = w.position
           /\ hf_file_size' = w.size
    /\ raised' = FALSE
    /\ issued' = Append(issued, <<hf_position, data>>)
    /\ last' = <<"write", Len(issued)>>
    /\ UNCHANGED <<file, closed, cvars, svars, rvars, vvars>>

\* write(b"").
WriteEmpty ==
    /\ LET w == write(write_buffer, hf_position, hf_file_size, <<>>)
       IN  /\ write_buffer' = w.buffer
           /\ hf_position' = w.position
           /\ hf_file_size' = w.size
    /\ raised' = FALSE
    /\ UNCHANGED <<file, closed, issued, last, cvars, svars, rvars, vvars>>

\* has_unsaved_changes() returns has_unsaved_changes(write_buffer) and changes nothing.
HasUnsavedChanges ==
    /\ raised' = FALSE
    /\ UNCHANGED <<file, write_buffer, hf_position, hf_file_size, closed, issued, last,
                   cvars, svars, rvars, vvars>>

\* get_unsaved_ranges() returns get_unsaved_ranges(write_buffer) and changes nothing.
GetUnsavedRanges ==
    /\ raised' = FALSE
    /\ UNCHANGED <<file, write_buffer, hf_position, hf_file_size, closed, issued, last,
                   cvars, svars, rvars, vvars>>

\* Faulty variant of Save: the overlay is not cleared.
SaveKeepsOverlay ==
    /\ IF write_buffer = <<>>
       THEN /\ raised' = FALSE
            /\ issued' = <<>>
            /\ last' = <<"save", Len(issued)>>
            /\ UNCHANGED <<file, write_buffer, hf_file_size>>
       ELSE IF closed
       THEN /\ raised' = TRUE
            /\ UNCHANGED <<file, write_buffer, hf_file_size, issued, last>>
       ELSE /\ file' = SavedFile(file, write_buffer)
            /\ hf_file_size' = _get_file_size(file')
            /\ raised' = FALSE
            /\ issued' = <<>>
            /\ last' = <<"save", Len(issued)>>
            /\ UNCHANGED write_buffer
    /\ UNCHANGED <<hf_position, closed, cvars, svars, rvars, vvars>>

\* save() with every backing-file call succeeding, or failing at once because
\* the backing file is closed (the first call, tell(), raises).
Save ==
    /\ IF write_buffer = <<>>
       THEN /\ raised' = FALSE
            /\ issued' = <<>>
            /\ last' = <<"save", Len(issued)>>
            /\ UNCHANGED <<file, write_buffer, hf_file_size>>
       ELSE IF closed
       THEN /\ raised' = TRUE
            /\ UNCHANGED <<file, write_buffer, hf_file_size, issued, last>>
       ELSE /\ file' = SavedFile(file, write_buffer)
            /\ write_buffer' = <<>>
            /\ hf_file_size' = _get_file_size(file')
            /\ raised' = FALSE
            /\ issued' = <<>>
            /\ last' = <<"save", Len(issued)>>
    /\ UNCHANGED <<hf_position, closed, cvars, svars, rvars, vvars>>

\* save() on an open backing file whose k-th write raises an I/O fault (k one
\* past the last item: the seek that restores the file position raises). The
\* items before the k-th are in the file, the exception leaves save() before
\* the overlay is cleared.
SaveFault(k) ==
    /\ ~closed
    /\ write_buffer # <<>>
    /\ k \in 1..(Len(write_buffer) + 1)
    /\ file' = WriteItems(file, SubSeq(SortedItems(write_buffer), 1, k - 1))
    /\ raised' = TRUE
    /\ UNCHANGED <<write_buffer, hf_position, hf_file_size, closed, issued, last,
                   cvars, svars, rvars, vvars>>

\* Faulty variant of Revert: the logical size is not refreshed.
RevertKeepsSize ==
    /\ write_buffer' = <<>>
    /\ raised' = closed
    /\ issued' = <<>>
    /\ last' = <<IF closed THEN "revert_fault" ELSE "revert", Len(issued)>>
    /\ UNCHANGED <<file, hf_position, hf_file_size, closed, cvars, svars, rvars, vvars>>

\* revert() clears the overlay and then asks the backing file for its size,
\* which raises when the file is closed.
Revert ==
    /\ write_buffer' = <<>>
    /\ hf_file_size' = IF closed THEN hf_file_size ELSE _get_file_size(file)
    /\ raised' = closed
    /\ issued' = <<>>
    /\ last' = <<IF closed THEN "revert_fault" ELSE "revert", Len(issued)>>
    /\ UNCHANGED <<file, hf_position, closed, cvars, svars, rvars, vvars>>

\* close() closes the backing file and nothing else.
Close ==
    /\ closed' = TRUE
    /\ raised' = FALSE
    /\ UNCHANGED <<file, write_buffer, hf_position, hf_file_size, issued, last,
                   cvars, svars, rvars, vvars>>

HexFileNext ==
    \/ \E a \in SeekArgs : Seek(a[1], a[2])
    \/ Tell
    \/ \E size \in ReadSizes : Read(size)
    \/ \E n \in ReadSizes \cap Nat : ReadInto(n)
    \/ \E data \in WriteData : Write(data)
    \/ WriteEmpty
    \/ HasUnsavedChanges
    \/ GetUnsavedRanges
    \/ Save
    \/ Revert

\* The store with its end of life and the faults of its backing file.
HexFileFaultsNext ==
    \/ HexFileNext
    \/ Close
    \/ \E k \in 1..(MaxWrites + 1) : SaveFault(k)

(* -------------------------- Cursor: helpers --------------------------- *)

\* Cursor.__init__ sets view_height to 10 whatever it is given.
DefaultViewHeight == 10

\* The view_height arguments a Cursor is constructed with.
ConstructorHeights == {2, DefaultViewHeight}

\* Python's floor division and modulo by a positive divisor.
FloorDiv(a, b) == IF a >= 0 THEN a \div b ELSE 0 - ((b - 1 - a) \div b)

Mod(a, b) == a - b * FloorDiv(a, b)

\* Cursor.x
x(pos, bpl) == Mod(pos, bpl)

\* Cursor.y
y(pos, bpl) == FloorDiv(pos, bpl)

\* Faulty variant of move_x: a move left of column 0 is always rejected.
move_x_no_left_wrap(pos, fsize, bpl, delta) ==
    LET new_x == x(pos, bpl) + delta
        current_y == y(pos, bpl)
        max_y == FloorDiv(fsize - 1, bpl)
    IN  IF new_x < 0
        THEN pos
        ELSE IF new_x >= bpl
        THEN IF current_y < max_y
             THEN Max(0, Min((current_y + 1) * bpl + 0, fsize - 1))
             ELSE pos
        ELSE Max(0, Min(current_y * bpl + new_x, fsize - 1))

\* The position move_x hands to _set_position (pos itself where it makes no call).
move_x(pos, fsize, bpl, delta) ==
    LET new_x == x(pos, bpl) + delta
        current_y == y(pos, bpl)
        max_y == FloorDiv(fsize - 1, bpl)
    IN  IF new_x < 0
        THEN IF current_y > 0
             THEN Max(0, Min((current_y - 1) * bpl + (bpl - 1), fsize - 1))
             ELSE pos
        ELSE IF new_x >= bpl
        THEN IF current_y < max_y
             THEN Max(0, Min((current_y + 1) * bpl + 0, fsize - 1))
             ELSE pos
        ELSE Max(0, Min(current_y * bpl + new_x, fsize - 1))

\* Faulty variant of move_y: the last reachable line is computed without the column.
move_y_any_column(pos, fsize, bpl, delta) ==
    LET current_x == x(pos, bpl)
        current_y == y(pos, bpl)
        max_possible_y == FloorDiv(fsize - 1, bpl)
        new_y == Max(0, Min(current_y + delta, max_possible_y))
    IN  IF new_y = current_y THEN pos ELSE new_y * bpl + current_x

\* The position move_y hands to _set_position (pos itself where it returns early).
move_y(pos, fsize, bpl, delta) ==
    LET current_x == x(pos, bpl)
        current_y == y(pos, bpl)
        max_possible_y == FloorDiv(fsize - 1 - current_x, bpl)
        new_y == Max(0, Min(current_y + delta, max_possible_y))
    IN  IF new_y = current_y THEN pos ELSE new_y * bpl + current_x

\* Faulty variant of set_x: the position is not clamped against the file size.
set_x_past_end(pos, fsize, bpl, nx) ==
    LET current_y == y(pos, bpl)
        new_x == Max(0, Min(nx, bpl - 1))
    IN  current_y * bpl + new_x

\* The position set_x hands to _set_position.
set_x(pos, fsize, bpl, nx) ==
    LET current_y == y(pos, bpl)
        new_x == Max(0, Min(nx, bpl - 1))
        new_position == current_y * bpl + new_x
    IN  Max(0, Min(new_position, fsize - 1))

\* The position set_y hands to _set_position.
set_y(pos, fsize, bpl, ny) ==
    LET current_x == x(pos, bpl)
        max_y == Max(0, FloorDiv(fsize - 1, bpl))
        new_y == Max(0, Min(ny, max_y))
        new_position == new_y * bpl + current_x
    IN  Min(new_position, fsize - 1)

\* The position _move_to_file_start hands to _set_position.
_move_to_file_start(pos, fsize) == 0

\* The position _move_to_file_end hands to _set_position (pos itself where it makes no call).
_move_to_file_end(pos, fsize) == IF fsize > 0 THEN fsize - 1 ELSE pos

\* go_to_offset(offset): an absolute jump, clamped to [0, size - 1].
go_to_offset(pos, fsize, offset) == Max(0, Min(offset, fsize - 1))

\* The keys handle_event dispatches on.
HandledKeys == {"left", "right", "up", "down", "home", "x01", "end", "x04",
                "ctrl+home", "ctrl+end", "pageup", "pagedown"}

\* handle_event's return value for a Key event.
handled(key) == key \in HandledKeys

\* Keys and events the cursor is sent.
Keys == HandledKeys \cup {"ctrl+left", "ctrl+right", "tab", "a"}

\* The position handle_event's dispatch hands to _set_position for a key.
KeyTarget(pos, fsize, bpl, vh, key) ==
    IF key = "left" THEN move_x(pos, fsize, bpl, 0 - 1)
    ELSE IF key = "right" THEN move_x(pos, fsize, bpl, 1)
    ELSE IF key = "up" THEN move_y(pos, fsize, bpl, 0 - 1)
    ELSE IF key = "down" THEN move_y(pos, fsize, bpl, 1)
    ELSE IF key = "home" \/ key = "x01" THEN set_x(pos, fsize, bpl, 0)
    ELSE IF key = "end" \/ key = "x04" THEN set_x(pos, fsize, bpl, bpl - 1)
    ELSE IF key = "ctrl+home" THEN _move_to_file_start(pos, fsize)
    ELSE IF key = "ctrl+end" THEN _move_to_file_end(pos, fsize)
    ELSE IF key = "pageup" THEN move_y(pos, fsize, bpl, 0 - vh)
    ELSE IF key = "pagedown" THEN move_y(pos, fsize, bpl, vh)
    ELSE pos

\* Faulty variant of Notifications: the callbacks fire on every call, moved or not.
NotificationsAlways(pos, new_position, bpl, has_changed_cb, has_scroll_cb) ==
    (IF has_changed_cb THEN << <<"on_position_changed", new_position>> >> ELSE <<>>)
    \o (IF has_scroll_cb
        THEN << <<"on_scroll_request", FloorDiv(new_position, bpl)>> >>
        ELSE <<>>)

\* The callbacks _set_position invokes, in order, when asked to store new_position.
Notifications(pos, new_position, bpl, has_changed_cb, has_scroll_cb) ==
    IF new_position # pos
    THEN (IF has_changed_cb THEN << <<"on_position_changed", new_position>> >> ELSE <<>>)
         \o (IF has_scroll_cb
             THEN << <<"on_scroll_request", FloorDiv(new_position, bpl)>> >>
             ELSE <<>>)
    ELSE <<>>

(* ------------------------- Cursor: operations ------------------------- *)

\* Faulty variant of _set_position: the byte after new_position is stored.
_set_position_shifted(new_position) ==
    /\ position' = new_position + 1
    /\ calls' = Notifications(position, new_position + 1, bytes_per_line,
                              on_position_changed, on_scroll_request)

\* Cursor._set_position
_set_position(new_position) ==
    /\ position' = new_position
    /\ calls' = Notifications(position, new_position, bytes_per_line,
                              on_position_changed, on_scroll_request)

CursorFrame == UNCHANGED <<file_size, bytes_per_line, view_height, height_given, is_active,
                           on_position_changed, on_scroll_request, hfvars, svars, rvars, vvars>>

CursorInit(sizes) ==
    /\ position = 0
    /\ file_size \in sizes
    /\ bytes_per_line \in 1..MaxBytesPerLine
    /\ view_height = DefaultViewHeight
    /\ height_given \in ConstructorHeights
    /\ is_active = FALSE
    /\ on_position_changed \in BOOLEAN
    /\ on_scroll_request \in BOOLEAN
    /\ calls = <<>>

MoveX(delta) ==
    /\ _set_position(move_x(position, file_size, bytes_per_line, delta))
    /\ CursorFrame

MoveY(delta) ==
    /\ _set_position(move_y(position, file_size, bytes_per_line, delta))
    /\ CursorFrame

SetX(nx) ==
    /\ _set_position(set_x(position, file_size, bytes_per_line, nx))
    /\ CursorFrame

SetY(ny) ==
    /\ _set_position(set_y(position, file_size, bytes_per_line, ny))
    /\ CursorFrame

MoveToFileStart ==
    /\ _set_position(_move_to_file_start(position, file_size))
    /\ CursorFrame

MoveToFileEnd ==
    /\ _set_position(_move_to_file_end(position, file_size))
    /\ CursorFrame

GoToOffset(offset) ==
    /\ _set_position(go_to_offset(position, file_size, offset))
    /\ CursorFrame

\* handle_event with a Key event.
HandleKey(key) ==
    /\ _set_position(KeyTarget(position, file_size, bytes_per_line, view_height, key))
    /\ CursorFrame

\* handle_event with an event that is no Key.
HandleOtherEvent ==
    /\ calls' = <<>>
    /\ UNCHANGED position
    /\ CursorFrame

OnFocus ==
    /\ is_active' = TRUE
    /\ calls' = <<>>
    /\ UNCHANGED <<position, file_size, bytes_per_line, view_height, height_given,
                   on_position_changed, on_scroll_request, hfvars, svars, rvars, vvars>>

OnBlur ==
    /\ is_active' = FALSE
    /\ calls' = <<>>
    /\ UNCHANGED <<position, file_size, bytes_per_line, view_height, height_given,
                   on_position_changed, on_scroll_request, hfvars, svars, rvars, vvars>>

SetFileSize(n) ==
    /\ file_size' = n
    /\ _set_position(IF position >= n THEN Max(0, n - 1) ELSE position)
    /\ UNCHANGED <<bytes_per_line, view_height, height_given, is_active,
                   on_position_changed, on_scroll_request, hfvars, svars, rvars, vvars>>

SetViewHeight(h) ==
    /\ view_height' = h
    /\ height_given' = h
    /\ calls' = <<>>
    /\ UNCHANGED <<position, file_size, bytes_per_line, is_active,
                   on_position_changed, on_scroll_request, hfvars, svars, rvars, vvars>>

CursorNext(sizes) ==
    \/ \E delta \in (0 - MaxArg)..MaxArg : MoveX(delta)
    \/ \E delta \in (0 - MaxArg)..MaxArg : MoveY(delta)
    \/ \E nx \in (0 - MaxArg)..MaxArg : SetX(nx)
    \/ \E ny \in (0 - MaxArg)..MaxArg : SetY(ny)
    \/ MoveToFileStart
    \/ MoveToFileEnd
    \/ \E offset \in (0 - MaxArg)..(MaxCursorSize + 1) : GoToOffset(offset)
    \/ \E key \in Keys : HandleKey(key)
    \/ HandleOtherEvent
    \/ OnFocus
    \/ OnBlur
    \/ \E n \in sizes : SetFileSize(n)
    \/ \E h \in 0..MaxArg : SetViewHeight(h)

(* -------------------- a pair of synchronised cursors ------------------ *)

\* The positions the navigation operations of a cursor at pos hand to
\* _set_position (pos itself where the operation returns without calling it).
NavTargets(pos, fsize, bpl, vh) ==
    {move_x(pos, fsize, bpl, delta) : delta \in (0 - MaxArg)..MaxArg}
    \cup {move_y(pos, fsize, bpl, delta) : delta \in (0 - MaxArg)..MaxArg}
    \cup {set_x(pos, fsize, bpl, nx) : nx \in (0 - MaxArg)..MaxArg}
    \cup {set_y(pos, fsize, bpl, ny) : ny \in (0 - MaxArg)..MaxArg}
    \cup {_move_to_file_start(pos, fsize), _move_to_file_end(pos, fsize)}
    \cup {KeyTarget(pos, fsize, bpl, vh, key) : key \in Keys}

\* The position of cursor c of the pair.
PositionOf(c) == IF c = 1 THEN position ELSE position2

\* The other cursor of the pair.
Sibling(c) == 3 - c

\* The position-changed handler of cursor c: it hands the reported value to
\* the sibling's _set_position.
SyncHandler(c, value) == <<Sibling(c), value>>

SyncFrame == UNCHANGED <<file_size, bytes_per_line, view_height, height_given, is_active,
                         on_position_changed, on_scroll_request, hfvars, rvars, vvars>>

\* Two cursors over the same file, each one's on_position_changed wired to
\* the other, both at the start.
SyncInit(sizes) ==
    /\ position = 0
    /\ position2 = 0
    /\ file_size \in sizes
    /\ bytes_per_line \in 1..MaxBytesPerLine
    /\ view_height = DefaultViewHeight
    /\ height_given = DefaultViewHeight
    /\ is_active = FALSE
    /\ on_position_changed = TRUE
    /\ on_scroll_request = TRUE
    /\ calls = <<>>
    /\ calls2 = <<>>
    /\ pending = None
    /\ depth = 0

\* A navigation operation on cursor c, up to its call of _set_position.
SyncNavigate(c) ==
    /\ pending = None
    /\ \E t \in NavTargets(PositionOf(c), file_size, bytes_per_line, view_height) :
           pending' = <<c, t>>
    /\ calls' = <<>>
    /\ calls2' = <<>>
    /\ depth' = 0
    /\ UNCHANGED <<position, position2>>
    /\ SyncFrame

\* The pending _set_position call runs on its cursor; the position-changed
\* callback, when it fires, calls the sibling's _set_position in turn.
SyncSetPosition ==
    /\ pending # None
    /\ depth < MaxDepth
    /\ LET c == pending[1]
           new_position == pending[2]
           fired == Notifications(PositionOf(c), new_position, bytes_per_line,
                                  on_position_changed, on_scroll_request)
       IN  /\ IF c = 1
              THEN /\ position' = new_position
                   /\ calls' = calls \o fired
                   /\ UNCHANGED <<position2, calls2>>
              ELSE /\ position2' = new_position
                   /\ calls2' = calls2 \o fired
                   /\ UNCHANGED <<position, calls>>
           /\ pending' = IF \E i \in 1..Len(fired) : fired[i][1] = "on_position_changed"
                         THEN SyncHandler(c, new_position)
                         ELSE None
    /\ depth' = depth + 1
    /\ SyncFrame

SyncNext ==
    \/ \E c \in {1, 2} : SyncNavigate(c)
    \/ SyncSetPosition

(* ---------------------------- parts at rest ---------------------------- *)

\* The cursor of a store that is only read and written, never navigated.
CursorIdle ==
    /\ position = 0
    /\ file_size = 0
    /\ bytes_per_line = 1
    /\ view_height = DefaultViewHeight
    /\ height_given = DefaultViewHeight
    /\ is_active = FALSE
    /\ on_position_changed = FALSE
    /\ on_scroll_request = FALSE
    /\ calls = <<>>

\* The store of a cursor that is only navigated.
\* No second cursor is wired.
SyncIdle ==
    /\ position2 = 0
    /\ calls2 = <<>>
    /\ pending = None
    /\ depth = 0

HexFileIdle ==
    /\ file = <<>>
    /\ write_buffer = <<>>
    /\ hf_position = 0
    /\ hf_file_size = 0
    /\ closed = FALSE
    /\ raised = FALSE
    /\ issued = <<>>
    /\ last = <<"open", 0>>

(* ------------------------------ columns ------------------------------- *)

\* Text is a sequence of code points; these are the characters the columns emit.
Space == 32

Dot == 46

Colon == 58

Zero == 48

\* Segment(text, style) of rich.segment.
Segment(text, style) == [text |-> text, style |-> style]

\* The value None in the place of a style: nothing was set for the byte.
NoStyle == [is_style |-> FALSE, attrs |-> {}]

\* Style(): a style object with no attribute set.
NullStyle == [is_style |-> TRUE, attrs |-> {}]

\* NewlineHighlighter.newline_style.
newline_style == [is_style |-> TRUE, attrs |-> {<<"color", "bright_cyan">>, <<"bold", "True">>}]

\* NewlineHighlighter._combine_styles: the new style alone when nothing was
\* set, otherwise existing + new, where the attributes of new win.
_combine_styles(existing, new) ==
    IF ~existing.is_style
    THEN new
    ELSE [is_style |-> TRUE,
          attrs |-> {p \in existing.attrs : \A q \in new.attrs : q[1] # p[1]} \cup new.attrs]

\* NewlineHighlighter.highlight: the bytes 0x0A and 0x0D get the newline style.
highlight(data, file_offset, styles) ==
    [i \in 1..Len(styles) |->
        IF i <= Len(data) /\ data[i] \in {10, 13}
        THEN _combine_styles(styles[i], newline_style)
        ELSE styles[i]]

\* Cursor.active_style.
active_style == [is_style |-> TRUE, attrs |-> {<<"bgcolor", "bright_white">>, <<"color", "black">>}]

\* Faulty variant of cursor_combine_styles: the new style replaces what the slot held.
cursor_combine_styles_replace(existing, new) == new

\* Cursor._combine_styles: the new style alone when nothing was set,
\* otherwise existing + new, where the attributes of new win.
cursor_combine_styles(existing, new) ==
    IF ~existing.is_style
    THEN new
    ELSE [is_style |-> TRUE,
          attrs |-> {p \in existing.attrs : \A q \in new.attrs : q[1] # p[1]} \cup new.attrs]

\* Faulty variant of cursor_highlight: an inactive cursor highlights too.
cursor_highlight_inactive(pos, active, data, file_offset, styles) ==
    IF data = <<>>
    THEN styles
    ELSE IF pos >= file_offset /\ pos < file_offset + Len(data)
         THEN [styles EXCEPT ![pos - file_offset + 1] = cursor_combine_styles(@, active_style)]
         ELSE styles

\* Cursor.highlight: the styles array as the call leaves it.
cursor_highlight(pos, active, data, file_offset, styles) ==
    IF data = <<>> \/ ~active
    THEN styles
    ELSE IF pos >= file_offset /\ pos < file_offset + Len(data)
         THEN [styles EXCEPT ![pos - file_offset + 1] = cursor_combine_styles(@, active_style)]
         ELSE styles

RECURSIVE ApplyHighlighters(_, _, _, _)
\* The loop of _apply_highlighting: each highlighter in turn works on
\* styles, the cursor of the column when it is the one registered.
ApplyHighlighters(hs, data, file_offset, styles) ==
    IF hs = <<>>
    THEN styles
    ELSE ApplyHighlighters(Tail(hs), data, file_offset,
                           IF Head(hs) = "cursor"
                           THEN cursor_highlight(position, is_active, data, file_offset, styles)
                           ELSE highlight(data, file_offset, styles))

\* DataColumn._apply_highlighting: one entry per byte, None to start with.
_apply_highlighting(hs, data, file_offset) ==
    ApplyHighlighters(hs, data, file_offset, [i \in 1..Len(data) |-> NoStyle])

\* A lowercase hexadecimal digit, as the format code "x" writes it.
HexDigitUpper(d) == IF d < 10 THEN Zero + d ELSE 55 + d

HexDigit(d) == IF d < 10 THEN Zero + d ELSE 87 + d

RECURSIVE HexText(_)
\* f"{n:x}": the hexadecimal digits of n, no padding.
HexText(n) ==
    IF n < 16 THEN <<HexDigit(n)>> ELSE HexText(n \div 16) \o <<HexDigit(n % 16)>>

\* f"{n:0{digits}x}": zero-padded to at least that many digits.
HexFormat(n, digits) ==
    LET text == HexText(n)
    IN IF Len(text) >= digits
       THEN text
       ELSE [i \in 1..(digits - Len(text)) |-> Zero] \o text

\* HexColumn.width.
hex_width(bpl) == bpl * 3 - 1 + (IF bpl > 8 THEN 1 ELSE 0) + 1

\* One pass of a loop of HexColumn.render_line for the byte at index i:
\* the extra space before index 8, the two cells, the separator.
HexCell(bpl, i, text, style) ==
    (IF i = 8 THEN <<Segment(<<Space>>, NullStyle)>> ELSE <<>>)
    \o <<Segment(text, style)>>
    \o (IF i < bpl - 1 THEN <<Segment(<<Space>>, NullStyle)>> ELSE <<>>)

RECURSIVE HexCells(_, _, _, _, _)
\* The two loops of HexColumn.render_line from index i on: the bytes of
\* data with their styles, then two blank cells for each missing byte.
HexCells(bpl, data, styles, i, stop) ==
    IF i >= stop
    THEN <<>>
    ELSE (IF i < Len(data)
          THEN HexCell(bpl, i, HexFormat(data[i + 1], 2),
                       IF i < Len(styles) THEN styles[i + 1] ELSE NullStyle)
          ELSE HexCell(bpl, i, <<Space, Space>>, NullStyle))
         \o HexCells(bpl, data, styles, i + 1, stop)

\* HexColumn.render_line.
hex_render_line(bpl, hs, data, file_offset) ==
    HexCells(bpl, data, _apply_highlighting(hs, data, file_offset), 0, Max(bpl, Len(data)))
    \o <<Segment(<<Space>>, NullStyle)>>

RECURSIVE ClickLoop(_, _, _, _)
\* The while loop of HexColumn.calculate_click_position.
ClickLoop(bpl, click_offset, pos, current_offset) ==
    IF ~(pos < bpl /\ current_offset < click_offset)
    THEN pos
    ELSE LET after_gap == IF pos = 8 THEN current_offset + 1 ELSE current_offset
             byte_end == after_gap + 2 + (IF pos < bpl - 1 THEN 1 ELSE 0)
         IN IF pos = 8 /\ after_gap >= click_offset
            THEN pos
            ELSE IF click_offset <= byte_end
                 THEN pos
                 ELSE ClickLoop(bpl, click_offset, pos + 1, byte_end)

\* HexColumn.calculate_click_position.
calculate_click_position(bpl, click_offset) ==
    Min(ClickLoop(bpl, click_offset, 0, 0), bpl - 1)

\* AsciiColumn.width.
ascii_width(bpl) == bpl

\* The character AsciiColumn.render_line shows for a byte.
ascii_char(byte) == IF 32 <= byte /\ byte <= 127 THEN byte ELSE Dot

\* byte_to_ascii of hex_view.
byte_to_ascii(byte) == IF 32 <= byte /\ byte <= 127 THEN byte ELSE Dot

\* AsciiColumn.render_line: a segment per byte, then a blank per missing byte.
ascii_render_line(bpl, hs, data, file_offset) ==
    LET styles == _apply_highlighting(hs, data, file_offset)
    IN [i \in 1..Len(data) |-> Segment(<<ascii_char(data[i])>>, styles[i])]
       \o [i \in 1..(bpl - Len(data)) |-> Segment(<<Space>>, NullStyle)]

\* The digits AddressColumn uses for a non-empty file.
hex_digits_short(fsize) == Len(HexText(fsize))

hex_digits(fsize) == Max(4, Len(HexText(fsize)))

\* AddressColumn.width.
address_width(fsize) == IF fsize = 0 THEN 10 ELSE hex_digits(fsize) + 2

\* AddressColumn.render_line.
address_render_line(fsize, file_offset) ==
    <<Segment((IF fsize = 0
               THEN HexFormat(file_offset, 8)
               ELSE HexFormat(file_offset, hex_digits(fsize))) \o <<Colon, Space>>,
              NullStyle)>>

\* No call has been made on the col_class yet.
NoCall == [call |-> "none", data |-> <<>>, arg |-> 0, segments |-> <<>>, byte |-> 0]

\* HexColumn(bytes_per_line) or AsciiColumn(bytes_per_line) or
\* AddressColumn(file_size), just constructed.
ColumnInit ==
    /\ col_class \in {"hex", "ascii", "address"}
    /\ IF col_class = "address"
       THEN col_bytes_per_line = 0 /\ col_file_size \in AddressSizes
       ELSE col_bytes_per_line \in 1..MaxColumnBytes /\ col_file_size = 0
    /\ highlighters = <<>>
    /\ out = NoCall
    /\ has_focus = FALSE
    /\ has_cursor = FALSE

\* No col_class is in use.
ColumnIdle ==
    /\ col_class = "address"
    /\ col_bytes_per_line = 0
    /\ col_file_size = 0
    /\ highlighters = <<>>
    /\ out = NoCall
    /\ has_focus = FALSE
    /\ has_cursor = FALSE

\* HexColumn.render_line(data, file_offset, line_number)
HexRenderLine(data, file_offset) ==
    /\ col_class = "hex"
    /\ out' = [call |-> "render_line", data |-> data, arg |-> file_offset,
               segments |-> hex_render_line(col_bytes_per_line, highlighters, data, file_offset),
               byte |-> 0]
    /\ UNCHANGED <<col_class, col_bytes_per_line, col_file_size, highlighters, has_focus, has_cursor,
                   hfvars, cvars, svars, vvars>>

\* AsciiColumn.render_line(data, file_offset, line_number)
AsciiRenderLine(data, file_offset) ==
    /\ col_class = "ascii"
    /\ out' = [call |-> "render_line", data |-> data, arg |-> file_offset,
               segments |-> ascii_render_line(col_bytes_per_line, highlighters, data, file_offset),
               byte |-> 0]
    /\ UNCHANGED <<col_class, col_bytes_per_line, col_file_size, highlighters, has_focus, has_cursor,
                   hfvars, cvars, svars, vvars>>

\* AddressColumn.render_line(data, file_offset, line_number)
AddressRenderLine(file_offset) ==
    /\ col_class = "address"
    /\ out' = [call |-> "render_line", data |-> <<>>, arg |-> file_offset,
               segments |-> address_render_line(col_file_size, file_offset),
               byte |-> 0]
    /\ UNCHANGED <<col_class, col_bytes_per_line, col_file_size, highlighters, has_focus, has_cursor,
                   hfvars, cvars, svars, vvars>>

\* HexColumn.calculate_click_position(click_offset)
CalculateClickPosition(click_offset) ==
    /\ col_class = "hex"
    /\ out' = [call |-> "calculate_click_position", data |-> <<>>, arg |-> click_offset,
               segments |-> <<>>,
               byte |-> calculate_click_position(col_bytes_per_line, click_offset)]
    /\ UNCHANGED <<col_class, col_bytes_per_line, col_file_size, highlighters, has_focus, has_cursor,
                   hfvars, cvars, svars, vvars>>

\* AddressColumn.set_file_size(file_size)
AddressSetFileSize(fsize) ==
    /\ col_class = "address"
    /\ col_file_size' = fsize
    /\ out' = NoCall
    /\ UNCHANGED <<col_class, col_bytes_per_line, highlighters, has_focus, has_cursor,
                   hfvars, cvars, svars, vvars>>

\* DataColumn.add_highlighter(NewlineHighlighter())
AddHighlighter ==
    /\ col_class # "address"
    /\ Len(highlighters) < MaxHighlighters
    /\ highlighters' = Append(highlighters, "newline")
    /\ out' = NoCall
    /\ UNCHANGED <<col_class, col_bytes_per_line, col_file_size, has_focus, has_cursor,
                   hfvars, cvars, svars, vvars>>

\* DataColumn.remove_highlighter(highlighter): the first one is taken out.
RemoveHighlighter ==
    /\ col_class # "address"
    /\ highlighters # <<>>
    /\ highlighters' = Tail(highlighters)
    /\ out' = NoCall
    /\ UNCHANGED <<col_class, col_bytes_per_line, col_file_size, has_focus, has_cursor,
                   hfvars, cvars, svars, vvars>>

ColumnNext ==
    \/ \E data \in Chunks(col_bytes_per_line) : HexRenderLine(data, 0)
    \/ \E data \in Chunks(col_bytes_per_line) : AsciiRenderLine(data, 0)
    \/ \E file_offset \in AddressOffsets :
          /\ col_file_size = 0 \/ file_offset < col_file_size
          /\ AddressRenderLine(file_offset)
    \/ \E click_offset \in 0..hex_width(col_bytes_per_line) : CalculateClickPosition(click_offset)
    \/ \E fsize \in AddressSizes : AddressSetFileSize(fsize)
    \/ AddHighlighter
    \/ RemoveHighlighter

(* ------------------------ a column with a cursor ---------------------- *)

\* Keys sent to a column: moves in both directions, jumps, and one no cursor handles.
FocusKeys == {"left", "right", "down", "end", "ctrl+end", "a"}

\* File sizes of the cursor a column is given.
FocusSizes == {0, 2, MaxCursorSize}

\* The chunks a column with a cursor renders: every length up to a full line.
FocusChunks(bpl) == {ChunkOf(n, r) : n \in 0..bpl, r \in 0..1}

\* The file offsets of the lines it renders: the first two lines.
FocusOffsets(bpl) == {0, bpl}

\* What earlier highlighters may have left in the slots of a chunk of n bytes.
StyleArrays(n) == [1..n -> {NoStyle, newline_style}]

\* HexColumn(bytes_per_line, cursor) or AsciiColumn(bytes_per_line, cursor),
\* just constructed, with the fresh Cursor it shares its bytes_per_line with.
FocusInit ==
    /\ col_class \in {"hex", "ascii"}
    /\ bytes_per_line \in (MaxBytesPerLine - 1)..MaxBytesPerLine
    /\ col_bytes_per_line = bytes_per_line
    /\ col_file_size = 0
    /\ highlighters = <<>>
    /\ out = NoCall
    /\ has_focus = FALSE
    /\ has_cursor \in BOOLEAN
    /\ position = 0
    /\ file_size \in FocusSizes
    /\ view_height = DefaultViewHeight
    /\ height_given = DefaultViewHeight
    /\ is_active = FALSE
    /\ on_position_changed = FALSE
    /\ on_scroll_request = FALSE
    /\ calls = <<>>

\* Faulty variant of column_forwards: the event reaches the cursor of an unfocused column.
column_forwards_unfocused(hc, hf) == hc

\* The test of DataColumn.handle_event: a cursor is set and the column has focus.
column_forwards(hc, hf) == hc /\ hf

\* DataColumn.handle_event(event) with a Key event
ColumnHandleEvent(key) ==
    /\ IF column_forwards(has_cursor, has_focus)
       THEN _set_position(KeyTarget(position, file_size, bytes_per_line, view_height, key))
       ELSE UNCHANGED <<position, calls>>
    /\ out' = [call |-> "handle_event", key |-> key, had_focus |-> has_focus,
               position |-> position,
               ret |-> column_forwards(has_cursor, has_focus) /\ handled(key)]
    /\ UNCHANGED <<col_class, col_bytes_per_line, col_file_size, highlighters, has_focus,
                   has_cursor, file_size, bytes_per_line, view_height, height_given,
                   is_active, on_position_changed, on_scroll_request, hfvars, svars, vvars>>

\* DataColumn.focus()
ColumnFocus ==
    /\ has_focus' = TRUE
    /\ IF has_cursor
       THEN is_active' = TRUE /\ calls' = <<>>
       ELSE UNCHANGED <<is_active, calls>>
    /\ out' = NoCall
    /\ UNCHANGED <<col_class, col_bytes_per_line, col_file_size, highlighters, has_cursor,
                   position, file_size, bytes_per_line, view_height, height_given,
                   on_position_changed, on_scroll_request, hfvars, svars, vvars>>

\* DataColumn.blur()
ColumnBlur ==
    /\ has_focus' = FALSE
    /\ IF has_cursor
       THEN is_active' = FALSE /\ calls' = <<>>
       ELSE UNCHANGED <<is_active, calls>>
    /\ out' = NoCall
    /\ UNCHANGED <<col_class, col_bytes_per_line, col_file_size, highlighters, has_cursor,
                   position, file_size, bytes_per_line, view_height, height_given,
                   on_position_changed, on_scroll_request, hfvars, svars, vvars>>

\* DataColumn.add_highlighter(cursor): the column's cursor is registered as a highlighter.
AddCursor ==
    /\ has_cursor
    /\ Len(highlighters) < MaxHighlighters
    /\ highlighters' = Append(highlighters, "cursor")
    /\ out' = NoCall
    /\ UNCHANGED <<col_class, col_bytes_per_line, col_file_size, has_focus, has_cursor,
                   hfvars, cvars, svars, vvars>>

\* Cursor.highlight(data, file_offset, styles), called on its own.
CursorHighlight(data, file_offset, styles) ==
    /\ out' = [call |-> "highlight", data |-> data, arg |-> file_offset, before |-> styles,
               position |-> position,
               styles |-> cursor_highlight(position, is_active, data, file_offset, styles)]
    /\ UNCHANGED <<col_class, col_bytes_per_line, col_file_size, highlighters, has_focus,
                   has_cursor, hfvars, cvars, svars, vvars>>

FocusNext ==
    \/ \E key \in FocusKeys : ColumnHandleEvent(key)
    \/ ColumnFocus
    \/ ColumnBlur
    \/ AddHighlighter
    \/ AddCursor
    \/ RemoveHighlighter
    \/ \E data \in FocusChunks(col_bytes_per_line), file_offset \in FocusOffsets(col_bytes_per_line) :
          HexRenderLine(data, file_offset)
    \/ \E data \in FocusChunks(col_bytes_per_line), file_offset \in FocusOffsets(col_bytes_per_line) :
          AsciiRenderLine(data, file_offset)
    \/ \E n \in 0..col_bytes_per_line, file_offset \in FocusOffsets(col_bytes_per_line) :
          \E styles \in StyleArrays(n) : CursorHighlight(ChunkOf(n, 0), file_offset, styles)

(* ------------------------------- HexView ------------------------------ *)

\* BYTES_PER_LINE of hex_view.
BYTES_PER_LINE == 16

\* Sizes of the file a view is bound to: empty, one byte, one byte into
\* the second line, and the largest explored.
ViewSizes == {0, 1, BYTES_PER_LINE + 1, MaxViewSize}

\* The bytes of the file of n bytes behind a view.
ViewContent(n) == ChunkOf(n, 0)

\* The keys a view is sent: those on_key dispatches on, and one it does not.
ViewKeys == {"tab", "shift+tab", "return", "left", "right", "up", "down", "home", "end",
             "ctrl+home", "ctrl+end", "pageup", "pagedown", "a"}

\* set_file's lines_needed: the file's size in lines, rounded up.
lines_needed(fsize) == (fsize + BYTES_PER_LINE - 1) \div BYTES_PER_LINE

\* Faulty variant of on_focus: a view without a file starts in hex mode too.
on_focus_without_file(loaded, mode) == IF mode = "inactive" THEN "hex" ELSE mode

\* on_focus: the cursor mode it leaves.
on_focus(loaded, mode) == IF loaded /\ mode = "inactive" THEN "hex" ELSE mode

\* _move_cursor: the cursor offset it stores.
_move_cursor(off, fsize, delta_bytes) == Max(0, Min(off + delta_bytes, fsize - 1))

\* scroll_to(y=line): the top line of the view afterwards; the widget
\* keeps scroll_y from going below 0.
scroll_to(line) == Max(0, line)

\* on_key's pageup branch: where scroll_to is sent and the offset stored.
page_up(off, fsize, top, height) ==
    LET cursor_relative_to_view == FloorDiv(off, BYTES_PER_LINE) - top
        horizontal_position == Mod(off, BYTES_PER_LINE)
        new_view_top == Max(0, top - height)
        new_cursor_line == Max(0, Min(new_view_top + cursor_relative_to_view,
                                      FloorDiv(fsize - 1, BYTES_PER_LINE)))
    IN [scroll |-> scroll_to(new_view_top),
        offset |-> IF new_view_top = 0 /\ top > 0
                   THEN Min(horizontal_position, fsize - 1)
                   ELSE Max(0, Min(new_cursor_line * BYTES_PER_LINE + horizontal_position,
                                   fsize - 1))]

\* on_key's pagedown branch: where scroll_to is sent and the offset stored.
page_down(off, fsize, top, height, vheight) ==
    LET cursor_relative_to_view == FloorDiv(off, BYTES_PER_LINE) - top
        horizontal_position == Mod(off, BYTES_PER_LINE)
        max_scroll == Max(0, vheight - height)
        new_view_top == Min(max_scroll, top + height)
        new_cursor_line == Max(0, Min(new_view_top + cursor_relative_to_view,
                                      FloorDiv(fsize - 1, BYTES_PER_LINE)))
    IN [scroll |-> scroll_to(new_view_top),
        offset |-> Max(0, Min(new_cursor_line * BYTES_PER_LINE + horizontal_position,
                              fsize - 1))]

\* on_key past its guard: the mode and offset the key's branch stores and
\* the line it scrolls to, before the watcher of cursor_offset runs.
on_key(mode, off, fsize, top, height, vheight, key) ==
    LET same == [mode |-> mode, offset |-> off, scroll |-> top]
        line_start == FloorDiv(off, BYTES_PER_LINE) * BYTES_PER_LINE
    IN  IF key = "tab" THEN [same EXCEPT !.mode = IF mode = "hex" THEN "ascii" ELSE mode]
        ELSE IF key = "shift+tab" THEN [same EXCEPT !.mode = IF mode = "ascii" THEN "hex" ELSE mode]
        ELSE IF key = "return" THEN [same EXCEPT !.mode = IF mode = "hex" THEN "ascii" ELSE "hex"]
        ELSE IF key = "left" THEN [same EXCEPT !.offset = _move_cursor(off, fsize, 0 - 1)]
        ELSE IF key = "right" THEN [same EXCEPT !.offset = _move_cursor(off, fsize, 1)]
        ELSE IF key = "up" THEN [same EXCEPT !.offset = _move_cursor(off, fsize, 0 - BYTES_PER_LINE)]
        ELSE IF key = "down" THEN [same EXCEPT !.offset = _move_cursor(off, fsize, BYTES_PER_LINE)]
        ELSE IF key = "home" THEN [same EXCEPT !.offset = line_start]
        ELSE IF key = "end"
             THEN [same EXCEPT !.offset = Min(line_start + BYTES_PER_LINE - 1, fsize - 1)]
        ELSE IF key = "ctrl+home" THEN [same EXCEPT !.offset = 0]
        ELSE IF key = "ctrl+end" THEN [same EXCEPT !.offset = fsize - 1]
        ELSE IF key = "pageup"
             THEN [same EXCEPT !.offset = page_up(off, fsize, top, height).offset,
                               !.scroll = page_up(off, fsize, top, height).scroll]
        ELSE IF key = "pagedown"
             THEN [same EXCEPT !.offset = page_down(off, fsize, top, height, vheight).offset,
                               !.scroll = page_down(off, fsize, top, height, vheight).scroll]
        ELSE same

\* watch_cursor_offset: the top line it leaves after a change of cursor_offset.
watch_cursor_offset(loaded, fsize, new_offset, top, height) ==
    LET cursor_line == FloorDiv(new_offset, BYTES_PER_LINE)
    IN  IF ~loaded \/ fsize = 0 THEN top
        ELSE IF height <= 0 THEN top
        ELSE IF cursor_line < top THEN scroll_to(cursor_line)
        ELSE IF cursor_line > top + height - 1 THEN scroll_to(cursor_line - height + 1)
        ELSE top

\* The styles of the byte under the cursor.
inactive_cursor_style == [is_style |-> TRUE, attrs |-> {<<"bgcolor", "grey30">>, <<"color", "grey70">>}]

active_cursor_style == [is_style |-> TRUE, attrs |-> {<<"bgcolor", "bright_white">>, <<"color", "black">>}]

other_cursor_style == [is_style |-> TRUE, attrs |-> {<<"bgcolor", "white">>, <<"color", "black">>}]

\* The style of byte j of a section: the cursor's when it sits there, in the
\* shade of the view's mode (section is the mode in which this section is the active one).
ViewStyle(mode, section, j, cursor_byte_index) ==
    IF j = cursor_byte_index
    THEN IF mode = "inactive" THEN inactive_cursor_style
         ELSE IF mode = section THEN active_cursor_style
         ELSE other_cursor_style
    ELSE NullStyle

RECURSIVE ViewHexBytes(_, _, _, _)
\* The first loop of _format_hex_line_with_cursor from byte j on: the gap
\* before byte 8, the two digits, a space unless the byte is the chunk's last.
ViewHexBytes(chunk, mode, cursor_byte_index, j) ==
    IF j >= Len(chunk)
    THEN <<>>
    ELSE (IF j = 8 THEN <<Segment(<<Space>>, NullStyle)>> ELSE <<>>)
         \o <<Segment(HexFormat(chunk[j + 1], 2), ViewStyle(mode, "hex", j, cursor_byte_index))>>
         \o (IF j < Len(chunk) - 1 THEN <<Segment(<<Space>>, NullStyle)>> ELSE <<>>)
         \o ViewHexBytes(chunk, mode, cursor_byte_index, j + 1)

RECURSIVE ViewHexPad(_)
\* The padding loop from index j on: two blanks per missing byte.
ViewHexPad(j) ==
    IF j >= BYTES_PER_LINE
    THEN <<>>
    ELSE (IF j = 8 THEN <<Segment(<<Space>>, NullStyle)>> ELSE <<>>)
         \o <<Segment(<<Space, Space>>, NullStyle)>>
         \o (IF j < BYTES_PER_LINE - 1 THEN <<Segment(<<Space>>, NullStyle)>> ELSE <<>>)
         \o ViewHexPad(j + 1)

\* The hex section of a formatted line: the bytes, then the padding.
ViewHexSection(chunk, mode, cursor_byte_index) ==
    ViewHexBytes(chunk, mode, cursor_byte_index, 0) \o ViewHexPad(Len(chunk))

\* HexView._format_hex_line_with_cursor
_format_hex_line_with_cursor(off, mode, file_offset, chunk, line_number) ==
    LET cursor_byte_index == IF FloorDiv(off, BYTES_PER_LINE) = line_number
                             THEN Mod(off, BYTES_PER_LINE)
                             ELSE 0 - 1
    IN  <<Segment(HexFormat(file_offset, 8) \o <<Colon>>, NullStyle), Segment(<<Space>>, NullStyle)>>
        \o ViewHexSection(chunk, mode, cursor_byte_index)
        \o <<Segment(<<Space, Space>>, NullStyle)>>
        \o [k \in 1..Len(chunk) |->
               Segment(<<byte_to_ascii(chunk[k])>>, ViewStyle(mode, "ascii", k - 1, cursor_byte_index))]

\* Faulty variant of _read_chunk: a fault of the store is not caught.
_read_chunk_uncaught(raises, data) == [aborts |-> raises, chunk |-> data]

\* HexView._read_chunk: the chunk it returns, empty when the store raised;
\* no exception leaves it.
_read_chunk(raises, data) == [aborts |-> FALSE, chunk |-> IF raises THEN <<>> ELSE data]

\* No call has been made on the view yet.
NoViewCall == [call |-> "none"]

\* HexView() or HexView(file), just constructed, and the HexFile just
\* opened on a file of one of the sizes; __init__ leaves _file_size at 0.
ViewInit ==
    /\ hv_file \in BOOLEAN
    /\ hv_file_size = 0
    /\ cursor_offset = 0
    /\ cursor_mode = "inactive"
    /\ scroll_y = 0
    /\ virtual_height = 0
    /\ hv_call = NoViewCall
    /\ \E n \in ViewSizes : file = ViewContent(n) /\ hf_file_size = n
    /\ write_buffer = <<>>
    /\ hf_position = 0
    /\ closed = FALSE
    /\ raised = FALSE
    /\ issued = <<>>
    /\ last = <<"open", 0>>

\* No view is in use.
ViewIdle ==
    /\ hv_file = FALSE
    /\ hv_file_size = 0
    /\ cursor_offset = 0
    /\ cursor_mode = "inactive"
    /\ scroll_y = 0
    /\ virtual_height = 0
    /\ hv_call = NoViewCall

\* HexView.set_file(file) with the HexFile
ViewSetFile ==
    /\ hv_file' = TRUE
    /\ hv_file_size' = hf_file_size
    /\ virtual_height' = lines_needed(hf_file_size)
    /\ hv_call' = NoViewCall
    /\ UNCHANGED <<cursor_offset, cursor_mode, scroll_y, hfvars, cvars, svars, rvars>>

\* The view is scrolled to line top: by the user, or when a scroll_to settles.
ViewScroll(top) ==
    /\ scroll_y' = top
    /\ hv_call' = NoViewCall
    /\ UNCHANGED <<hv_file, hv_file_size, cursor_offset, cursor_mode, virtual_height,
                   hfvars, cvars, svars, rvars>>

\* HexView.on_focus(event)
ViewOnFocus ==
    /\ cursor_mode' = on_focus(hv_file, cursor_mode)
    /\ hv_call' = [call |-> "on_focus", mode |-> cursor_mode, offset |-> cursor_offset]
    /\ UNCHANGED <<hv_file, hv_file_size, cursor_offset, scroll_y, virtual_height,
                   hfvars, cvars, svars, rvars>>

\* HexView.on_blur(event)
ViewOnBlur ==
    /\ cursor_mode' = "inactive"
    /\ hv_call' = [call |-> "on_blur", mode |-> cursor_mode, offset |-> cursor_offset]
    /\ UNCHANGED <<hv_file, hv_file_size, cursor_offset, scroll_y, virtual_height,
                   hfvars, cvars, svars, rvars>>

\* HexView.on_key(event), with the watcher of cursor_offset that a changed
\* offset sets off.
ViewOnKey(key) ==
    /\ IF ~hv_file \/ cursor_mode = "inactive"
       THEN UNCHANGED <<cursor_offset, cursor_mode, scroll_y>>
       ELSE LET r == on_key(cursor_mode, cursor_offset, hv_file_size, scroll_y, ViewHeight,
                            virtual_height, key)
            IN  /\ cursor_mode' = r.mode
                /\ cursor_offset' = r.offset
                /\ scroll_y' = IF r.offset # cursor_offset
                               THEN watch_cursor_offset(hv_file, hv_file_size, r.offset,
                                                        r.scroll, ViewHeight)
                               ELSE r.scroll
    /\ hv_call' = [call |-> "on_key", key |-> key, mode |-> cursor_mode, offset |-> cursor_offset]
    /\ UNCHANGED <<hv_file, hv_file_size, virtual_height, hfvars, cvars, svars, rvars>>

\* HexView.render_line(row); fault: the backing file fails the store's read.
ViewRenderLine(row, fault) ==
    LET actual_line == row + scroll_y
        file_offset == actual_line * BYTES_PER_LINE
        data == read(file, write_buffer, hf_file_size, file_offset, BYTES_PER_LINE)
        raises == read_raises(closed \/ fault, file, write_buffer, hf_file_size,
                              file_offset, BYTES_PER_LINE)
        got == _read_chunk(raises, data)
        reads == hv_file /\ actual_line < virtual_height /\ file_offset < hv_file_size
    IN  /\ hv_call' =
              [call |-> "render_line", row |-> row, line |-> actual_line,
               faulted |-> reads /\ raises,
               chunk |-> IF reads THEN got.chunk ELSE <<>>,
               strip |-> IF ~hv_file THEN [kind |-> "no file loaded", segments |-> <<>>]
                         ELSE IF ~reads THEN [kind |-> "blank", segments |-> <<>>]
                         ELSE IF got.aborts THEN [kind |-> "aborted", segments |-> <<>>]
                         ELSE IF got.chunk = <<>> THEN [kind |-> "blank", segments |-> <<>>]
                         ELSE [kind |-> "line",
                               segments |-> _format_hex_line_with_cursor(
                                                cursor_offset, cursor_mode, file_offset,
                                                got.chunk, actual_line)]]
        /\ IF reads
           THEN /\ raised' = raises
                /\ hf_position' = IF raises THEN file_offset ELSE file_offset + Len(data)
           ELSE UNCHANGED <<raised, hf_position>>
        /\ UNCHANGED <<file, write_buffer, hf_file_size, closed, issued, last,
                       hv_file, hv_file_size, cursor_offset, cursor_mode, scroll_y,
                       virtual_height, cvars, svars, rvars>>

ViewNext ==
    \/ ViewSetFile
    \/ \E top \in 0..Max(0, virtual_height - 1) : ViewScroll(top)
    \/ ViewOnFocus
    \/ ViewOnBlur
    \/ \E key \in ViewKeys : ViewOnKey(key)
    \/ \E row \in 0..(ViewHeight - 1), fault \in BOOLEAN : ViewRenderLine(row, fault)

(* --------------------------- specifications --------------------------- *)

\* The byte store on its own.
Init == HexFileInit /\ CursorIdle /\ SyncIdle /\ ColumnIdle /\ ViewIdle

Next == HexFileNext

Spec == Init /\ [][Next]_vars

\* The store with close() and the I/O faults of save().
NextFaults == HexFileFaultsNext

SpecFaults == Init /\ [][NextFaults]_vars

\* A cursor over a file of any size, the empty file included.
CursorSizes == 0..MaxCursorSize

InitCursor == CursorInit(CursorSizes) /\ HexFileIdle /\ SyncIdle /\ ColumnIdle /\ ViewIdle

NextCursor == CursorNext(CursorSizes)

SpecCursor == InitCursor /\ [][NextCursor]_vars

\* A cursor whose file is never empty.
SizedCursorSizes == 1..MaxCursorSize

InitSizedCursor == CursorInit(SizedCursorSizes) /\ HexFileIdle /\ SyncIdle /\ ColumnIdle /\ ViewIdle

NextSizedCursor == CursorNext(SizedCursorSizes)

SpecSizedCursor == InitSizedCursor /\ [][NextSizedCursor]_vars

\* A synchronised pair of cursors over a file of any size.
InitSync == SyncInit(CursorSizes) /\ HexFileIdle /\ ColumnIdle /\ ViewIdle

NextSync == SyncNext

SpecSync == InitSync /\ [][NextSync]_vars

\* One column of the display: rendered, clicked, highlighted.
InitColumn == ColumnInit /\ HexFileIdle /\ CursorIdle /\ SyncIdle /\ ViewIdle

NextColumn == ColumnNext

SpecColumn == InitColumn /\ [][NextColumn]_vars

\* One column that owns a cursor: focused, blurred, sent keys, rendered.
InitFocus == FocusInit /\ HexFileIdle /\ SyncIdle /\ ViewIdle

NextFocus == FocusNext

SpecFocus == InitFocus /\ [][NextFocus]_vars

\* A view and the store it shows.
InitView == ViewInit /\ CursorIdle /\ SyncIdle /\ ColumnIdle

NextView == ViewNext

SpecView == InitView /\ [][NextView]_vars

(* ------------------------- claims: byte store ------------------------- *)

\* Write w = <<offset, data>> covers byte position i (0-based).
Covers(w, i) == w[1] <= i /\ i < w[1] + Len(w[2])

\* The byte write w supplies for position i.
ByteOf(w, i) == w[2][i - w[1] + 1]

\* The byte a read of the whole store returns for position i.
ByteRead(i) == ReadAll[i + 1]

\* The end offset of the pending write that reaches furthest (0 without any).
RECURSIVE MaxEnd(_)
MaxEnd(buf) ==
    IF buf = <<>> THEN 0
    ELSE Max(Head(buf)[1] + Len(Head(buf)[2]), MaxEnd(Tail(buf)))

\* C1: with an empty overlay, after seek(o); write(B) a read of the whole store
\* returns B over [o, o + len(B)) and the backing file's byte at every other
\* position below the backing file's length.
ReadAfterWrite ==
    Len(issued) = 1 =>
        LET w == issued[1]
        IN  \A i \in 0..(Max(Len(file), w[1] + Len(w[2])) - 1) :
                /\ i < Len(ReadAll)
                /\ Covers(w, i) => ByteRead(i) = ByteOf(w, i)
                /\ (~Covers(w, i) /\ i < Len(file)) => ByteRead(i) = file[i + 1]

\* A write at the second byte of a two-byte file whose bytes differ from the written one.
ReadAfterWriteWitness ==
    /\ Len(issued) = 1
    /\ file = <<1, 1>>
    /\ issued[1] = <<1, <<0>> >>

\* C2: with an empty overlay, after write A at o1 and then write B at o2, every
\* byte in the overlap of the two ranges reads back as B's byte.
LaterWriteWins ==
    Len(issued) = 2 =>
        \A i \in 0..(MaxSize - 1) :
            (Covers(issued[1], i) /\ Covers(issued[2], i)) =>
                (i < Len(ReadAll) /\ ByteRead(i) = ByteOf(issued[2], i))

\* The second write starts before the first and the two disagree on a shared byte.
LaterWriteWinsWitness ==
    /\ Len(issued) = 2
    /\ issued[2][1] < issued[1][1]
    /\ \E i \in 0..(MaxSize - 1) :
           /\ Covers(issued[1], i)
           /\ Covers(issued[2], i)
           /\ ByteOf(issued[1], i) # ByteOf(issued[2], i)

\* C3: after any seek/write sequence, every position covered by a pending write
\* reads back as the byte of the most recently issued write that covers it.
LatestWriteRead ==
    \A i \in 0..(MaxSize - 1) :
        \A k \in 1..Len(issued) :
            (Covers(issued[k], i) /\ \A j \in (k + 1)..Len(issued) : ~Covers(issued[j], i))
                => (i < Len(ReadAll) /\ ByteRead(i) = ByteOf(issued[k], i))

\* C4: the backing file after save() equals what a read of the whole store
\* returned immediately before save().
SaveKeepsRead == [][Save => file' = ReadAll]_vars

\* C5: after revert() (and until the next write) a read of the whole store equals
\* the backing file, has_unsaved_changes() is false and the size is the backing
\* file's length.
RevertRestores ==
    last[1] = "revert" =>
        /\ ReadAll = file
        /\ ~has_unsaved_changes(write_buffer)
        /\ hf_file_size = Len(file)

\* A revert that discarded two pending writes of a store they had extended.
RevertRestoresWitness ==
    /\ last = <<"revert", 2>>
    /\ Len(file) < hf_position

\* C6: the backing file's content and length are changed only by save(): a step
\* of seek, tell, read, readinto, write, has_unsaved_changes, get_unsaved_ranges
\* or revert leaves them as they are.
OnlySaveChangesFile == [][file' # file => Save]_vars

\* Pending writes over the backing file's own bytes, with the store extended past it.
OnlySaveChangesFileWitness ==
    /\ Len(issued) = 2
    /\ file # <<>>
    /\ \E k \in 1..2 : issued[k][1] < Len(file)
    /\ hf_file_size > Len(file)

\* C7: the logical size equals the maximum of the backing file's length and the
\* end offset of every overlay item held.
SizeIsMaxEnd == hf_file_size = Max(Len(file), MaxEnd(write_buffer))

(* --------------------------- claims: cursor --------------------------- *)

\* C8: a cursor over a file that is never empty stays within [0, file_size - 1].
PositionInFile == 0 <= position /\ position <= file_size - 1

\* A move that fired its notifications and ended on the last byte of the largest file.
PositionInFileWitness ==
    /\ calls # <<>>
    /\ file_size = MaxCursorSize
    /\ position = file_size - 1

\* A movement operation of the cursor.
Movement ==
    \/ \E delta \in (0 - MaxArg)..MaxArg : MoveX(delta)
    \/ \E delta \in (0 - MaxArg)..MaxArg : MoveY(delta)
    \/ \E nx \in (0 - MaxArg)..MaxArg : SetX(nx)
    \/ \E ny \in (0 - MaxArg)..MaxArg : SetY(ny)
    \/ MoveToFileStart
    \/ MoveToFileEnd
    \/ \E key \in Keys : HandleKey(key)

\* C9: with file_size = 0 every movement operation is a no-op: the position
\* remains 0 and no notification fires.
EmptyFileNoMove ==
    [][(file_size = 0 /\ position = 0 /\ Movement)
           => (position' = 0 /\ calls' = <<>>)]_vars

\* C10: an operation that changes the position invokes the position-changed
\* callback once with the new position and then the scroll-request callback once
\* with the new position's line; one that leaves the position invokes neither.
NotifyOnChangeOnly ==
    [][(on_position_changed /\ on_scroll_request) =>
          IF position' # position
          THEN /\ Len(calls') = 2
               /\ calls'[1] = <<"on_position_changed", position'>>
               /\ calls'[2][1] = "on_scroll_request"
               /\ calls'[2][2] * bytes_per_line <= position'
               /\ position' < (calls'[2][2] + 1) * bytes_per_line
          ELSE calls' = <<>>]_vars

\* A move to a later line that fired both callbacks.
NotifyOnChangeOnlyWitness ==
    /\ on_position_changed
    /\ on_scroll_request
    /\ Len(calls) = 2
    /\ position >= bytes_per_line
    /\ bytes_per_line > 1

(* ---------------------- claims: store operations ---------------------- *)

\* The write issued last.
LastIssued == issued[Len(issued)]

\* C14: write(B) with B not empty at position p returns len(B), moves the
\* position to p + len(B) and makes the logical size the larger of the old size
\* and p + len(B): a write never decreases the size, and a write after a seek
\* past the end extends the store.
WriteAdvances ==
    \A B \in WriteData :
        LET w == write(write_buffer, hf_position, hf_file_size, B)
            e == hf_position + Len(B)
        IN  /\ w.ret = Len(B)
            /\ w.position = e
            /\ w.size = Max(hf_file_size, e)
            /\ w.size >= hf_file_size
            /\ hf_position > hf_file_size => w.size > hf_file_size

\* A single write made after a seek past the end has extended the store.
WriteAdvancesWitness ==
    /\ last = <<"write", 0>>
    /\ LastIssued[1] > Len(file)
    /\ hf_position = LastIssued[1] + Len(LastIssued[2])
    /\ hf_file_size = hf_position

\* C15: write(b"") returns 0 and changes nothing: position, logical size,
\* overlay entries and has_unsaved_changes() are as before the call, in every
\* state.
WriteEmptyNoOp ==
    LET w == write(write_buffer, hf_position, hf_file_size, <<>>)
    IN  /\ w.ret = 0
        /\ w.position = hf_position
        /\ w.size = hf_file_size
        /\ w.buffer = write_buffer
        /\ has_unsaved_changes(w.buffer) = has_unsaved_changes(write_buffer)

\* write(b"") met a store with pending writes, off the start, extended past
\* its backing file.
WriteEmptyNoOpWitness ==
    /\ has_unsaved_changes(write_buffer)
    /\ hf_position > 0
    /\ hf_file_size > Len(file)
    /\ write(write_buffer, hf_position, hf_file_size, <<>>).buffer = write_buffer

\* The base of seek(offset, whence): 0 for SET, the position for CUR, the
\* logical size for END.
SeekBase(whence) ==
    CASE whence = 0 -> 0
      [] whence = 1 -> hf_position
      [] whence = 2 -> hf_file_size

\* C16: seek(offset, whence) sets the position to max(0, base + offset), never
\* clamped to the size; tell() returns that value; the overlay and the size are
\* left alone.
SeekSets ==
    [][\A a \in SeekArgs :
           Seek(a[1], a[2]) =>
               /\ hf_position' = Max(0, SeekBase(a[2]) + a[1])
               /\ tell(hf_position') = Max(0, SeekBase(a[2]) + a[1])
               /\ write_buffer' = write_buffer
               /\ hf_file_size' = hf_file_size]_vars

\* The position lies past the logical size, which an unsaved write has
\* extended.
SeekSetsWitness ==
    /\ hf_position > hf_file_size
    /\ hf_file_size > Len(file)
    /\ tell(hf_position) = MaxSize

\* The number of bytes read(n) is to return at the current position.
ExpectedRead(n) ==
    Max(0, Min(IF n = 0 - 1 THEN hf_file_size - hf_position ELSE n,
               hf_file_size - hf_position))

\* read(n) returns ExpectedRead(n) bytes; at or past the end, or with n = 0, it
\* returns empty without raising.
ReadLength ==
    \A n \in ReadSizes :
        LET data == read(file, write_buffer, hf_file_size, hf_position, n)
        IN  /\ Len(data) = ExpectedRead(n)
            /\ (hf_position >= hf_file_size \/ n = 0) =>
                   /\ data = <<>>
                   /\ ~read_raises(closed, file, write_buffer, hf_file_size, hf_position, n)

\* C17: read(n) at position p returns exactly max(0, min(n, size - p)) bytes
\* (n = -1 meaning size - p) and advances the position by that number; when
\* p >= size or n = 0 it returns empty without raising and leaves position,
\* overlay and size unchanged.
ReadReturns ==
    /\ []ReadLength
    /\ [][\A n \in ReadSizes :
              Read(n) =>
                  /\ hf_position' = hf_position + ExpectedRead(n)
                  /\ ~raised'
                  /\ write_buffer' = write_buffer
                  /\ hf_file_size' = hf_file_size]_vars

\* A read of two bytes is one byte short of the end of a store that pending
\* writes have extended: a short read.
ReadReturnsWitness ==
    /\ hf_file_size > Len(file)
    /\ hf_position = hf_file_size - 1
    /\ Len(read(file, write_buffer, hf_file_size, hf_position, 2)) = 1
    /\ Len(read(file, write_buffer, hf_file_size, hf_position, 0 - 1)) = 1

\* After save() has returned, until the next write.
SavedState ==
    last[1] = "save" =>
        /\ ~has_unsaved_changes(write_buffer)
        /\ get_unsaved_ranges(write_buffer) = <<>>
        /\ hf_file_size = Len(file)

\* C18: after save() returns normally has_unsaved_changes() is false,
\* get_unsaved_ranges() is empty and the logical size equals the backing file's
\* length; with the overlay already empty save() changes neither the backing
\* file nor the store.
SaveSettles ==
    /\ []SavedState
    /\ [][(write_buffer = <<>> /\ Save) =>
              UNCHANGED <<file, write_buffer, hf_position, hf_file_size>>]_vars

\* A save that met two pending writes and grew the backing file.
SaveSettlesWitness ==
    /\ last = <<"save", 2>>
    /\ Len(file) = MaxSize
    /\ hf_file_size = MaxSize

\* The offsets written since the last save, revert or open.
IssuedOffsets == {issued[i][1] : i \in 1..Len(issued)}

\* The length of the latest write issued at offset.
LatestLength(offset) ==
    LET i == CHOOSE k \in 1..Len(issued) :
                 /\ issued[k][1] = offset
                 /\ \A j \in (k + 1)..Len(issued) : issued[j][1] # offset
    IN  Len(issued[i][2])

\* C19: get_unsaved_ranges() returns, ascending by start, exactly one
\* (start, start + length) pair per distinct offset written since the last
\* save/revert, and has_unsaved_changes() is true exactly when that list is not
\* empty, that is when a non-empty write occurred since the last save, revert or
\* open.
UnsavedRanges ==
    LET r == get_unsaved_ranges(write_buffer)
    IN  /\ \A i \in 1..(Len(r) - 1) : r[i][1] < r[i + 1][1]
        /\ {r[i][1] : i \in 1..Len(r)} = IssuedOffsets
        /\ Len(r) = Cardinality(IssuedOffsets)
        /\ \A i \in 1..Len(r) : r[i][2] = r[i][1] + LatestLength(r[i][1])
        /\ has_unsaved_changes(write_buffer) <=> Len(r) > 0
        /\ has_unsaved_changes(write_buffer) <=> issued # <<>>

\* Two pending writes, the later one at the lower offset.
UnsavedRangesWitness ==
    /\ Len(get_unsaved_ranges(write_buffer)) = 2
    /\ Len(issued) = 2
    /\ issued[1][1] > issued[2][1]

(* --------------------- claims: faults and close() --------------------- *)

\* A call of save(), whatever its outcome.
SaveCall == Save \/ \E k \in 1..(MaxWrites + 1) : SaveFault(k)

\* C12: save() is atomic: after a call either every overlay entry has been
\* written to the backing file and the overlay is empty, or (a backing write
\* faulted part-way) the overlay, the dirty status and the backing file content
\* are exactly as before the call.
SaveAtomic ==
    [][SaveCall =>
          \/ /\ file' = SavedFile(file, write_buffer)
             /\ write_buffer' = <<>>
          \/ /\ raised'
             /\ file' = file
             /\ write_buffer' = write_buffer
             /\ has_unsaved_changes(write_buffer') = has_unsaved_changes(write_buffer)]_vars

\* A call of read, write, save or revert.
StoreCall ==
    \/ \E size \in ReadSizes : Read(size)
    \/ \E data \in WriteData : Write(data)
    \/ SaveCall
    \/ Revert

\* C13: after close() every read, write, save and revert fails with a fault;
\* none succeeds, buffers data or silently returns empty data.
ClosedFails ==
    [][(closed /\ StoreCall) => (raised' /\ write_buffer' = write_buffer)]_vars

(* ------------------------ claims: cursor wrap ------------------------- *)

\* C20: move_x(-1) from column 0 of a line L > 0 lands on the last column of
\* line L-1; at position 0 it is rejected; move_x(+1) from the last column of a
\* line goes to column 0 of the next line when that line exists in the file;
\* from the last byte of the file it is rejected and the position stays.
MoveXWraps ==
    LET left == move_x(position, file_size, bytes_per_line, 0 - 1)
        right == move_x(position, file_size, bytes_per_line, 1)
        column == x(position, bytes_per_line)
        line == y(position, bytes_per_line)
    IN  /\ (column = 0 /\ line > 0) =>
               /\ y(left, bytes_per_line) = line - 1
               /\ x(left, bytes_per_line) = bytes_per_line - 1
        /\ position = 0 => left = position
        /\ (column = bytes_per_line - 1 /\ position < file_size - 1) =>
               /\ y(right, bytes_per_line) = line + 1
               /\ x(right, bytes_per_line) = 0
        /\ position = file_size - 1 => right = position

\* A move has brought the cursor to column 0 of a later line, in a file with
\* lines of several bytes whose last line is partial.
MoveXWrapsWitness ==
    /\ bytes_per_line > 1
    /\ x(position, bytes_per_line) = 0
    /\ y(position, bytes_per_line) > 0
    /\ Mod(file_size, bytes_per_line) # 0
    /\ calls # <<>>

(* --------------------- claims: cursor operations ---------------------- *)

\* v clamped into [lo, hi].
Clamp(v, lo, hi) == Max(lo, Min(v, hi))

\* The position a vertical move by delta lines is to reach: the column is
\* kept, the line is clamped to the lines on which that column exists.
LineMove(delta) ==
    LET column == x(position, bytes_per_line)
        line == y(position, bytes_per_line)
        max_line == FloorDiv(file_size - 1 - column, bytes_per_line)
    IN  Clamp(line + delta, 0, max_line) * bytes_per_line + column

\* C21: move_y(delta) never changes the column: the new line is
\* clamp(y + delta, 0, (file_size - 1 - x) div bytes_per_line) and the new
\* position is new_line * bytes_per_line + x; when the clamped line is the
\* current line the position is unchanged and no notification fires.
MoveYKeepsColumn ==
    \A delta \in (0 - MaxArg)..MaxArg :
        LET target == move_y(position, file_size, bytes_per_line, delta)
        IN  /\ target = LineMove(delta)
            /\ x(target, bytes_per_line) = x(position, bytes_per_line)
            /\ y(LineMove(delta), bytes_per_line) = y(position, bytes_per_line) =>
                   /\ target = position
                   /\ Notifications(position, target, bytes_per_line, TRUE, TRUE) = <<>>

\* A move has left the cursor on the line above a short last line, in a column
\* that line does not have: a move down is refused.
MoveYKeepsColumnWitness ==
    /\ calls # <<>>
    /\ y(position, bytes_per_line) + 1 = y(file_size - 1, bytes_per_line)
    /\ x(position, bytes_per_line) > x(file_size - 1, bytes_per_line)
    /\ move_y(position, file_size, bytes_per_line, 1) = position

DispatchTable == {"left", "right", "up", "down", "home", "end", "ctrl+home",
                  "ctrl+end", "pageup", "pagedown", "ctrl+left", "ctrl+right",
                  "x01", "x04"}

\* C23: handle_event returns true for every key of the dispatch table, with
\* ctrl+right / ctrl+left moving the position by +4 / -4 bytes clamped to the
\* file; for every other key it returns false and leaves the position.
DispatchConsumes ==
    LET Key(key) == KeyTarget(position, file_size, bytes_per_line, view_height, key)
    IN  /\ \A key \in DispatchTable : handled(key)
        /\ Key("ctrl+right") = Clamp(position + 4, 0, file_size - 1)
        /\ Key("ctrl+left") = Clamp(position - 4, 0, file_size - 1)
        /\ \A key \in Keys \ DispatchTable : ~handled(key) /\ Key(key) = position

PageByGivenHeight ==
    /\ KeyTarget(position, file_size, bytes_per_line, view_height, "pagedown")
           = LineMove(height_given)
    /\ KeyTarget(position, file_size, bytes_per_line, view_height, "pageup")
           = LineMove(0 - height_given)

(* --------------------------- claims: columns -------------------------- *)

\* The display cells a character takes: none for a control character
\* (C0, DEL and C1), one for every other code point below 256.
CellSize(cp) == IF cp < 32 \/ (127 <= cp /\ cp <= 159) THEN 0 ELSE 1

RECURSIVE CellLen(_)
CellLen(text) == IF text = <<>> THEN 0 ELSE CellSize(Head(text)) + CellLen(Tail(text))

RECURSIVE SegmentsCells(_)
SegmentsCells(segments) ==
    IF segments = <<>> THEN 0 ELSE CellLen(Head(segments).text) + SegmentsCells(Tail(segments))

\* The width the column object declares.
DeclaredWidth ==
    CASE col_class = "hex" -> hex_width(col_bytes_per_line)
      [] col_class = "ascii" -> ascii_width(col_bytes_per_line)
      [] col_class = "address" -> address_width(col_file_size)

\* C26: whatever the column, its bytes_per_line and the length of the chunk,
\* the segments render_line returns take exactly as many display cells as
\* the column's declared width.
RenderFillsWidth ==
    out.call = "render_line" => SegmentsCells(out.segments) = DeclaredWidth

\* The character a byte is shown as: itself from 0x20 to 0x7E, a dot otherwise.
PrintableChar(byte) == IF 32 <= byte /\ byte <= 126 THEN byte ELSE Dot

\* C27: AsciiColumn.render_line and byte_to_ascii show a byte as its own
\* character exactly when it lies in [0x20, 0x7E], and as '.' otherwise,
\* 0x7F included.
AsciiShowsPrintable ==
    (col_class = "ascii" /\ out.call = "render_line") =>
        \A i \in 1..Len(out.data) :
            /\ out.segments[i].text = <<PrintableChar(out.data[i])>>
            /\ byte_to_ascii(out.data[i]) = PrintableChar(out.data[i])

\* The code points of the lowercase hexadecimal digits.
LowerHexDigits == (48..57) \cup (97..102)

DigitValue(cp) == IF cp <= 57 THEN cp - 48 ELSE cp - 87

RECURSIVE DigitsValue(_)
\* The number a string of hexadecimal digits denotes.
DigitsValue(text) ==
    IF text = <<>>
    THEN 0
    ELSE 16 * DigitsValue(SubSeq(text, 1, Len(text) - 1)) + DigitValue(text[Len(text)])

\* text is exactly n lowercase hexadecimal digits denoting value.
IsLowerHex(text, n, value) ==
    /\ Len(text) = n
    /\ \A j \in 1..Len(text) : text[j] \in LowerHexDigits
    /\ DigitsValue(text) = value

\* The place of byte i (from 0) among the segments of a full 16-byte line.
SegmentOfByte(i) == 2 * i + 1 + (IF i >= 8 THEN 1 ELSE 0)

\* C28: a full 16-byte line with no highlighter renders as 33 segments: per
\* byte two lowercase hex digits and a separator space (none after the
\* 16th), an extra space before the 9th byte, a trailing space; every
\* segment carries the one default style.
HexLineSegments ==
    (/\ col_class = "hex"
     /\ out.call = "render_line"
     /\ col_bytes_per_line = 16
     /\ Len(out.data) = 16
     /\ highlighters = <<>>) =>
        /\ Len(out.segments) = 33
        /\ \A i \in 0..15 : IsLowerHex(out.segments[SegmentOfByte(i)].text, 2, out.data[i + 1])
        /\ \A k \in (1..33) \ {SegmentOfByte(i) : i \in 0..15} : out.segments[k].text = <<Space>>
        /\ \/ \A k \in 1..33 : out.segments[k].style = NoStyle
           \/ \A k \in 1..33 : out.segments[k].style = NullStyle

\* The cell (from 0) where render_line puts the first digit of byte i: the
\* cells of everything the line holds before it.
DigitCell(bpl, i) ==
    SegmentsCells(HexCells(bpl, <<>>, <<>>, 0, i)) + (IF i = 8 THEN 1 ELSE 0)

\* C29: calculate_click_position undoes render_line's layout: a click on
\* either of the two cells holding the digits of byte i returns i.
ClickInvertsLayout ==
    (col_class = "hex" /\ out.call = "calculate_click_position") =>
        \A i \in 0..(col_bytes_per_line - 1) :
            out.arg \in {DigitCell(col_bytes_per_line, i), DigitCell(col_bytes_per_line, i) + 1}
                => out.byte = i

\* The number of hexadecimal digits of n.
DigitCount(n) ==
    CHOOSE k \in 1..7 : (n = 0 /\ k = 1) \/ (n > 0 /\ 16 ^ (k - 1) <= n /\ n < 16 ^ k)

\* The digits an address is padded to for a file of that size.
AddressDigits(fsize) == IF fsize = 0 THEN 8 ELSE Max(4, DigitCount(fsize))

\* C30: the Address column renders file_offset as lowercase hexadecimal
\* zero-padded to max(4, hex digits of the file size) digits, 8 digits for
\* size 0, followed by ': '; its width is that digit count plus 2.
AddressFormat ==
    (col_class = "address" /\ out.call = "render_line") =>
        /\ Len(out.segments) = 1
        /\ LET text == out.segments[1].text
               n == AddressDigits(col_file_size)
           IN /\ Len(text) = n + 2
              /\ IsLowerHex(SubSeq(text, 1, n), n, out.arg)
              /\ SubSeq(text, n + 1, n + 2) = <<Colon, Space>>
              /\ address_width(col_file_size) = n + 2

\* An address of five digits with a leading zero has been rendered.
AddressFormatWitness ==
    /\ col_class = "address"
    /\ out.call = "render_line"
    /\ col_file_size = 65536
    /\ out.arg = 65520
    /\ out.segments[1].text = <<48, 102, 102, 102, 48, 58, 32>>

(* ------------------------ claims: store growth ------------------------ *)

\* A pending write covers position i.
PendingCovers(i) == \E j \in 1..Len(write_buffer) : Covers(write_buffer[j], i)

\* Every position past the backing file that no pending write covers reads as zero.
ZeroFilled ==
    \A i \in Len(file)..(hf_file_size - 1) : ~PendingCovers(i) => ByteRead(i) = 0

\* C36: once writes have taken the store past the backing file's length,
\* every position from that length up to the logical size that no pending
\* write covers reads as zero, and save() leaves the backing file as long
\* as the logical size was before the save.
GrowthZeroFilled ==
    []ZeroFilled /\ [][(hf_file_size > Len(file) /\ Save) => Len(file') = hf_file_size]_vars

(* ---------------------- claims: column and cursor --------------------- *)

\* The style a registered highlighter puts on a slot.
StyleOf(h) == IF h = "cursor" THEN active_style ELSE newline_style

\* The highlighter registered k-th styles slot i (from 1) of the rendered chunk.
Styles(k, i) ==
    IF highlighters[k] = "cursor"
    THEN is_active /\ position = out.arg + i - 1
    ELSE out.data[i] \in {10, 13}

\* The attributes slot i ends with: those of each highlighter that styles
\* it, unless a highlighter registered later sets the same attribute.
MergedAttrs(i) ==
    {p \in UNION {StyleOf(highlighters[k]).attrs : k \in 1..Len(highlighters)} :
        \E k \in 1..Len(highlighters) :
            /\ Styles(k, i)
            /\ p \in StyleOf(highlighters[k]).attrs
            /\ \A m \in (k + 1)..Len(highlighters) :
                   Styles(m, i) => \A q \in StyleOf(highlighters[m]).attrs : q[1] # p[1]}

\* The segment that shows byte i (from 1) of the chunk, on a line without mid-line gap.
ByteSegment(i) == IF col_class = "hex" THEN out.segments[2 * i - 1] ELSE out.segments[i]

\* C31: the highlighters of a column work in registration order on one
\* slot per byte, empty to start with; a slot styled more than once holds
\* the merge: every attribute an earlier highlighter set and no later one
\* set is still there, and a slot no highlighter styles stays empty.
HighlightersMerge ==
    (out.call = "render_line" /\ col_class \in {"hex", "ascii"} /\ col_bytes_per_line <= 8) =>
        \A i \in 1..Len(out.data) :
            /\ ByteSegment(i).style.is_style = (\E k \in 1..Len(highlighters) : Styles(k, i))
            /\ ByteSegment(i).style.attrs = MergedAttrs(i)

\* A newline byte under the active cursor, the cursor registered after the
\* newline highlighter: bold is kept, the cursor's background taken.
HighlightersMergeWitness ==
    /\ out.call = "render_line"
    /\ highlighters = <<"newline", "cursor">>
    /\ is_active
    /\ \E i \in 1..Len(out.data) :
          /\ out.data[i] = 10
          /\ position = out.arg + i - 1
          /\ ByteSegment(i).style.attrs =
                 {<<"bold", "True">>, <<"bgcolor", "bright_white">>, <<"color", "black">>}

\* The cursor lies in the chunk handed to the last highlight call.
CursorInSpan ==
    /\ is_active
    /\ out.data # <<>>
    /\ out.arg <= position
    /\ position < out.arg + Len(out.data)

\* C32: Cursor.highlight changes the slot at position - file_offset and no
\* other when the cursor is active and lies in the chunk; it changes no slot
\* when the cursor is inactive, the data empty or the position outside; the
\* cursor's position is what it was.
HighlightOneSlot ==
    out.call = "highlight" =>
        /\ Len(out.styles) = Len(out.before)
        /\ position = out.position
        /\ IF CursorInSpan
           THEN /\ out.styles[position - out.arg + 1] # out.before[position - out.arg + 1]
                /\ \A j \in 1..Len(out.before) :
                       j # position - out.arg + 1 => out.styles[j] = out.before[j]
           ELSE out.styles = out.before

\* The active cursor sits on the second byte of the second line, a slot
\* that held the newline style and now holds another.
HighlightOneSlotWitness ==
    /\ out.call = "highlight"
    /\ CursorInSpan
    /\ out.arg > 0
    /\ position = out.arg + 1
    /\ out.before[2] = newline_style
    /\ out.styles[2] # newline_style
    /\ out.styles[1] = out.before[1]

\* C37: a column without focus or without a cursor answers false to
\* handle_event and leaves the cursor where it was; after any focus() and
\* blur() calls the cursor's is_active equals the column's has_focus.
FocusGatesEvents ==
    /\ (out.call = "handle_event" /\ ~(has_cursor /\ out.had_focus)) =>
           (~out.ret /\ position = out.position)
    /\ has_cursor => is_active = has_focus

\* A key that would move the cursor was sent to the column after it lost focus.
FocusGatesEventsWitness ==
    /\ out.call = "handle_event"
    /\ has_cursor
    /\ ~out.had_focus
    /\ ~has_focus
    /\ out.key = "right"
    /\ position > 0
    /\ position < file_size - 1

(* ----------------------------- claims: view --------------------------- *)

\* C33: while the view holds no file, no key, focus or blur event moves
\* cursor_offset from 0 or cursor_mode out of inactive, and render_line
\* shows the no-file text.
NoFileIgnoresEvents ==
    ~hv_file =>
        /\ cursor_offset = 0
        /\ cursor_mode = "inactive"
        /\ hv_call.call = "render_line" => hv_call.strip.kind = "no file loaded"

\* A view without a file was sent the key that jumps to the end of a file
\* that exists but was never handed to it.
NoFileIgnoresEventsWitness ==
    /\ ~hv_file
    /\ hv_call.call = "on_key"
    /\ hv_call.key = "ctrl+end"
    /\ hf_file_size > 1

\* C34: focus cycling is circular: tab in ascii mode gives hex mode,
\* shift+tab in hex mode gives ascii mode, and after either key exactly one
\* of the two sections is focused.
FocusCycles ==
    (hv_call.call = "on_key" /\ hv_call.mode # "inactive" /\ hv_file) =>
        /\ (hv_call.key = "tab" /\ hv_call.mode = "ascii") => cursor_mode = "hex"
        /\ (hv_call.key = "shift+tab" /\ hv_call.mode = "hex") => cursor_mode = "ascii"
        /\ hv_call.key \in {"tab", "shift+tab"} => cursor_mode \in {"hex", "ascii"}

\* C35: render_line never aborts: the row is blank when the line's offset
\* is at or past the file size, and blank when the read of the line's
\* chunk raised.
RenderNeverAborts ==
    hv_call.call = "render_line" =>
        /\ hv_call.strip.kind # "aborted"
        /\ (hv_file /\ hv_call.line * BYTES_PER_LINE >= hv_file_size) =>
               hv_call.strip.kind = "blank"
        /\ hv_call.faulted => hv_call.strip.kind = "blank"

\* The read of a line inside the file raised and the row came out blank.
RenderNeverAbortsWitness ==
    /\ hv_call.call = "render_line"
    /\ hv_call.faulted
    /\ raised
    /\ hv_call.line * BYTES_PER_LINE < hv_file_size
    /\ hv_call.strip.kind = "blank"

\* C38: with a file loaded, cursor_offset stays within
\* 0..max(0, file_size - 1) whatever events arrive; it stays 0 for an empty file.
OffsetInFile ==
    hv_file => (0 <= cursor_offset /\ cursor_offset <= Max(0, hv_file_size - 1))

\* The cell at which the ASCII section of a formatted line starts, the
\* section being the last n segments.
AsciiStart(segments, n) == SegmentsCells(SubSeq(segments, 1, Len(segments) - n))

\* Where it starts on a full line.
FullLineAsciiStart ==
    AsciiStart(_format_hex_line_with_cursor(0, "inactive", 0, ChunkOf(BYTES_PER_LINE, 0), 0),
               BYTES_PER_LINE)

\* C39: the hex section of a formatted line takes the same cells whatever
\* the length of the chunk, so the ASCII section of a partial last line
\* starts at the same cell as that of a full line.
AsciiStartsAligned ==
    (hv_call.call = "render_line" /\ hv_call.strip.kind = "line") =>
        AsciiStart(hv_call.strip.segments, Len(hv_call.chunk)) = FullLineAsciiStart

\* C40: up and down never change the cursor's column: the offset moves by
\* one whole line or, when the column does not exist there, not at all.
VerticalKeepsColumn ==
    (hv_call.call = "on_key" /\ hv_call.key \in {"up", "down"}) =>
        /\ Mod(cursor_offset, BYTES_PER_LINE) = Mod(hv_call.offset, BYTES_PER_LINE)
        /\ cursor_offset \in {hv_call.offset - BYTES_PER_LINE, hv_call.offset,
                              hv_call.offset + BYTES_PER_LINE}

(* --------------------- claims: synchronised cursors ------------------- *)

\* The number of position-changed invocations in a callback log.
Changes(log) == Cardinality({i \in 1..Len(log) : log[i][1] = "on_position_changed"})

\* C11: with two cursors over the same file wired so that each one's
\* position-changed callback sets the other's position to the reported value, a
\* navigation operation on either cursor terminates (a _set_position call is
\* outstanding only while fewer than three have run), leaves both cursors at the
\* same position, and fires each cursor's callback at most once.
SyncSettles ==
    /\ pending # None => depth <= 2
    /\ pending = None => position = position2
    /\ Changes(calls) <= 1
    /\ Changes(calls2) <= 1

\* An operation on the second cursor has moved both cursors off the start and
\* its call chain has ended.
SyncSettlesWitness ==
    /\ pending = None
    /\ depth = 3
    /\ position2 > 0
    /\ position = position2
    /\ Changes(calls) = 1
    /\ Changes(calls2) = 1
    /\ calls2[1] = <<"on_position_changed", position2>>
    /\ calls[1] = calls2[1]
====
